---- MODULE Spec2Model ----
(***************************************************************************)
(* Reverse sync engine of silver-gate (Supabase -> MongoDB):               *)
(*   BaseReverseSyncer        services/reverse-sync/base.reverse-syncer.js *)
(*   LessonReverseSyncer      lessons      -> exercise                     *)
(*   LessonItemReverseSyncer  lesson_items -> exercise_item                *)
(*   helpers                  toObjectId, toDBRef, createStats, BATCH_SIZE *)
(***************************************************************************)
EXTENDS Integers, Sequences, FiniteSets, TLC

(***************************************************************************)
(* Bounds.  BATCH_SIZE is 100 and PAGE_SIZE is 1000 in the source; they    *)
(* are scaled down so that a table of MaxRows rows spans several batches   *)
(* and several pages.                                                      *)
(***************************************************************************)
MaxRows == 3

BATCH_SIZE == 2

PAGE_SIZE == 2

MaxRuns == 2

MaxClock == 2

\* the number of calls to the two stores that fail in one behaviour
MaxFaults == 1

(***************************************************************************)
(* JavaScript values: null, undefined, strings, ObjectIds and DBRefs, all  *)
(* as records [t, v].  The identifiers of the model are strings of one     *)
(* character repeated, kept as [c, n]: the character c, n times.           *)
(***************************************************************************)
Rep(c, n) == [c |-> c, n |-> n]

EmptyString == Rep("", 0)

Length(s) == s.n

Null == [t |-> "null", v |-> EmptyString]

Undefined == [t |-> "undefined", v |-> EmptyString]

Str(s) == [t |-> "str", v |-> s]

Truthy(x) == x.t \notin {"null", "undefined"} /\ ~(x.t = "str" /\ Length(x.v) = 0)

HexDigits ==
  {"0", "1", "2", "3", "4", "5", "6", "7", "8", "9",
   "a", "b", "c", "d", "e", "f", "A", "B", "C", "D", "E", "F"}

Lower(c) ==
  CASE c = "A" -> "a" [] c = "B" -> "b" [] c = "C" -> "c"
    [] c = "D" -> "d" [] c = "E" -> "e" [] c = "F" -> "f"
    [] OTHER -> c

\* the result of a call that may throw
Thrown == [ok |-> FALSE, val |-> Null]

Ok(x) == [ok |-> TRUE, val |-> x]

\* new mongoose.Types.ObjectId(s) for a 24 character string: the 12 bytes the
\* hex digits spell (so the case of the digits is lost); throws on a non-hex
\* character
ObjectId(s) ==
  IF s.c \in HexDigits
  THEN Ok([t |-> "oid", v |-> Rep(Lower(s.c), Length(s))])
  ELSE Thrown

toObjectId(id) ==
  IF ~Truthy(id) \/ id.t # "str" \/ Length(id.v) # 24
  THEN Thrown
  ELSE ObjectId(id.v)

toDBRef(collection, id) ==
  IF ~Truthy(id)
  THEN Ok(Null)
  ELSE LET objectId == IF id.t = "str" THEN toObjectId(id) ELSE Ok(id)
       IN  IF objectId.ok
           THEN Ok([t |-> "dbref", v |-> <<collection, objectId.val.v>>])
           ELSE Thrown

createStats ==
  [total |-> 0, inserted |-> 0, updated |-> 0, skipped |-> 0, errors |-> 0,
   matched |-> 0]

(***************************************************************************)
(* Source rows.                                                            *)
(***************************************************************************)
Hex24(c) == Rep(c, 24)

ShortId == Rep("a", 3)

LessonRow(ref, order, chapter) ==
  [id |-> 0, ref_id |-> ref, name |-> "lesson", display_order |-> order,
   book_id |-> 1, chapter_id |-> chapter]

ItemRow(ref, lesson, text) ==
  [id |-> 0, ref_id |-> ref, lesson_id |-> lesson, problem_statement |-> text]

\* rows a lessons table is drawn from: two rows with the same
\* (display_order, chapter) and different ref_ids, a row whose chapter has no
\* ref_id, rows without a ref_id, and a row whose ref_id is not an ObjectId
LessonPool ==
  {LessonRow(Str(Hex24("a")), 1, 1),
   LessonRow(Str(Hex24("b")), 1, 1),
   LessonRow(Str(Hex24("c")), 2, 2),
   LessonRow(Null, 1, 1),
   LessonRow(Str(ShortId), 1, 1)}

\* rows a lesson_items table is drawn from: lesson 1 has a ref_id, lesson 2
\* has none; "E..." and "e..." spell the same ObjectId
ItemPool ==
  {ItemRow(Str(Hex24("e")), 1, "q1"),
   ItemRow(Str(Hex24("1")), 1, "q2"),
   ItemRow(Str(Hex24("E")), 1, "q3"),
   ItemRow(Undefined, 1, "q1"),
   ItemRow(Str(EmptyString), 1, "q1"),
   ItemRow(Str(Hex24("2")), 2, "q1"),
   ItemRow(Str(Hex24("z")), 1, "q1")}

\* ref_id is unique in a table (idx_lesson_items_ref_id), so no row of the
\* pool is taken twice
SeqsUpTo(S, n) ==
  {q \in UNION {[1..k -> S] : k \in 0..n} :
     \A i, j \in 1..Len(q) : q[i] = q[j] => i = j}

\* the primary key of a row is its position in the table
MkTable(rows) == [i \in 1..Len(rows) |-> [rows[i] EXCEPT !.id = i]]

Books == <<[id |-> 1, ref_id |-> Str(Hex24("f"))]>>

Chapters ==
  <<[id |-> 1, ref_id |-> Str(Hex24("d"))], [id |-> 2, ref_id |-> Null]>>

FixedLessons ==
  MkTable(<<LessonRow(Str(Hex24("a")), 1, 1), LessonRow(Null, 2, 1)>>)

\* the tables a syncer may find: its own table is any table of the pool
Sources(e) ==
  IF e = "lesson"
  THEN {[books |-> Books, chapters |-> Chapters, lessons |-> MkTable(l),
         lesson_items |-> <<>>] : l \in SeqsUpTo(LessonPool, MaxRows)}
  ELSE {[books |-> Books, chapters |-> Chapters, lessons |-> FixedLessons,
         lesson_items |-> MkTable(it)] : it \in SeqsUpTo(ItemPool, MaxRows)}

(***************************************************************************)
(* The target store.  A collection is a set of documents with pairwise     *)
(* different _id; "exercise" also carries the unique index on              *)
(* (order, chapter, type) that LessonReverseSyncer.batchUpsert works       *)
(* around.                                                                 *)
(***************************************************************************)
Entities == {"lesson", "lessonItem"}

\* constructor options of the two syncers
mongoCollection(e) == IF e = "lesson" THEN "exercise" ELSE "exercise_item"

supabaseTable(e) == IF e = "lesson" THEN "lessons" ELSE "lesson_items"

Key(d) == <<d.order, d.chapter, d.type>>

\* mutant: the collection has no unique index
DuplicateKey_NoIndex(coll, docs, d) == FALSE

DuplicateKey(coll, docs, d) ==
  /\ coll = "exercise"
  /\ \E x \in docs : x._id # d._id /\ Key(x) = Key(d)

Merge(d, set) ==
  [k \in DOMAIN d \cup DOMAIN set |-> IF k \in DOMAIN set THEN set[k] ELSE d[k]]

EmptyResult(docs) ==
  [docs |-> docs, upsertedCount |-> 0, modifiedCount |-> 0, matchedCount |-> 0,
   deletedCount |-> 0, writeErrors |-> 0]

\* updateOne {filter: {_id}, update: {$set, $setOnInsert}, upsert: true}
UpdateOne(coll, r, op) ==
  LET hit == {d \in r.docs : d._id = op.filter}
  IN  IF hit # {}
      THEN LET d == CHOOSE x \in hit : TRUE
               n == Merge(d, op.set)
           IN  IF n = d
               THEN [r EXCEPT !.matchedCount = @ + 1]
               ELSE IF DuplicateKey(coll, r.docs, n)
               THEN [r EXCEPT !.writeErrors = @ + 1]
               ELSE [r EXCEPT !.docs = (r.docs \ {d}) \cup {n},
                              !.matchedCount = @ + 1, !.modifiedCount = @ + 1]
      ELSE LET n == Merge(Merge([_id |-> op.filter], op.setOnInsert), op.set)
           IN  IF DuplicateKey(coll, r.docs, n)
               THEN [r EXCEPT !.writeErrors = @ + 1]
               ELSE [r EXCEPT !.docs = r.docs \cup {n}, !.upsertedCount = @ + 1]

\* mutant: the filter without "_id: { $ne: doc._id }"
ConflictFilter_AnyId(doc) ==
  [ne |-> Null, order |-> doc.order, chapter |-> doc.chapter, type |-> doc.type]

\* the filter LessonReverseSyncer.batchUpsert builds for one document
ConflictFilter(doc) ==
  [ne |-> doc._id, order |-> doc.order, chapter |-> doc.chapter,
   type |-> doc.type]

Matches(d, f) ==
  d._id # f.ne /\ d.order = f.order /\ d.chapter = f.chapter /\ d.type = f.type

\* deleteMany {filter}
DeleteMany(r, op) ==
  LET gone == {d \in r.docs : Matches(d, op.filter)}
  IN  [r EXCEPT !.docs = r.docs \ gone,
                !.deletedCount = @ + Cardinality(gone)]

ApplyOp(coll, r, op) ==
  IF op.kind = "updateOne" THEN UpdateOne(coll, r, op) ELSE DeleteMany(r, op)

RECURSIVE RunOps(_, _, _)
RunOps(coll, r, ops) ==
  IF ops = <<>> THEN r ELSE RunOps(coll, ApplyOp(coll, r, Head(ops)), Tail(ops))

\* what the network does to one bulkWrite of n operations of one kind, which
\* the driver sends as one command: the call returns (ok) after the server
\* ran the command, or the connection fails before the command reached the
\* server (applied = 0) or before its reply reached the client (applied = n)
IOs(n) ==
  {[ok |-> TRUE, applied |-> n]} \cup {[ok |-> FALSE, applied |-> k] : k \in {0, n}}

\* collection.bulkWrite(ops, {ordered: false}): every operation is attempted,
\* a write error (duplicate key) does not stop the others, and the call
\* throws when an operation failed or the connection did
bulkWrite(coll, docs, ops, io) ==
  LET r == RunOps(coll, EmptyResult(docs), SubSeq(ops, 1, io.applied))
  IN  [result |-> r, threw |-> ~io.ok \/ r.writeErrors > 0]

(***************************************************************************)
(* preSyncHook and transformItem of the two syncers.                       *)
(***************************************************************************)
Lookup(map, key) == IF key \in DOMAIN map THEN map[key] ELSE Undefined

\* { supabase id: ref_id } over the rows that have a ref_id
RefIds(rows) ==
  LET with == {i \in 1..Len(rows) : Truthy(rows[i].ref_id)}
  IN  [id \in {rows[i].id : i \in with} |->
         rows[CHOOSE i \in with : rows[i].id = id
                /\ \A j \in with : rows[j].id = id => j <= i].ref_id]

EmptyContext == [bookRefIds |-> <<>>, chapterRefIds |-> <<>>, lessonRefIds |-> <<>>]

preSyncHook(e, src) ==
  IF e = "lesson"
  THEN [EmptyContext EXCEPT !.bookRefIds = RefIds(src.books),
                            !.chapterRefIds = RefIds(src.chapters)]
  ELSE [EmptyContext EXCEPT !.lessonRefIds = RefIds(src.lessons)]

NoDoc == [_id |-> Null]

Doc(d) == [status |-> "doc", doc |-> d]

LessonTransformItem(item, ctx) ==
  LET bookRefId    == Lookup(ctx.bookRefIds, item.book_id)
      chapterRefId == Lookup(ctx.chapterRefIds, item.chapter_id)
      id      == toObjectId(item.ref_id)
      book    == IF Truthy(bookRefId) THEN toDBRef("book", bookRefId) ELSE Ok(Null)
      chapter == IF Truthy(chapterRefId) THEN toDBRef("chapter", chapterRefId)
                 ELSE Ok(Null)
  IN  IF ~id.ok \/ ~book.ok \/ ~chapter.ok
      THEN [status |-> "throw", doc |-> NoDoc]
      ELSE Doc([_id |-> id.val, name |-> item.name, order |-> item.display_order,
                type |-> "EXAMPLE", book |-> book.val, chapter |-> chapter.val])

LessonItemTransformItem(item, ctx) ==
  LET lessonRefId == Lookup(ctx.lessonRefIds, item.lesson_id)
      id       == toObjectId(item.ref_id)
      exercise == toDBRef("exercise", lessonRefId)
  IN  IF ~Truthy(lessonRefId)
      THEN [status |-> "null", doc |-> NoDoc]
      ELSE IF ~id.ok \/ ~exercise.ok
      THEN [status |-> "throw", doc |-> NoDoc]
      ELSE Doc([_id |-> id.val, exercise |-> exercise.val,
                question |-> item.problem_statement])

transformItem(e, item, ctx) ==
  IF e = "lesson" THEN LessonTransformItem(item, ctx)
  ELSE LessonItemTransformItem(item, ctx)

(***************************************************************************)
(* batchUpsert: the base implementation and the override of the lesson     *)
(* syncer.  Both return the new stats and the new collection.              *)
(***************************************************************************)
BaseUpsertOps(documents) ==
  [i \in 1..Len(documents) |->
     [kind |-> "updateOne", filter |-> documents[i]._id, set |-> documents[i],
      setOnInsert |-> <<>>]]

\* mutant: a failed batch counted as one error
CountUpsert_OneError(stats, n, w) ==
  IF w.threw
  THEN [stats EXCEPT !.errors = @ + 1]
  ELSE [stats EXCEPT !.inserted = @ + w.result.upsertedCount,
                     !.updated = @ + w.result.modifiedCount]

\* the try/catch around the upsert bulkWrite
CountUpsert(stats, n, w) ==
  IF w.threw
  THEN [stats EXCEPT !.errors = @ + n]
  ELSE [stats EXCEPT !.inserted = @ + w.result.upsertedCount,
                     !.updated = @ + w.result.modifiedCount]

BaseBatchUpsert(coll, documents, stats, docs, io) ==
  LET w == bulkWrite(coll, docs, BaseUpsertOps(documents), io)
  IN  [stats |-> CountUpsert(stats, Len(documents), w), docs |-> w.result.docs]

LessonDeleteOps(documents) ==
  [i \in 1..Len(documents) |->
     [kind |-> "deleteMany", filter |-> ConflictFilter(documents[i])]]

\* mutant: every operation of a batch upserts its first document
LessonUpsertOps_FirstOnly(documents, now) ==
  [i \in 1..Len(documents) |->
     [kind |-> "updateOne", filter |-> documents[1]._id,
      set |-> [k \in (DOMAIN documents[1] \ {"_id"}) \cup {"updated_at"} |->
                 IF k = "updated_at" THEN now ELSE documents[1][k]],
      setOnInsert |-> [created_at |-> now]]]

LessonUpsertOps(documents, now) ==
  [i \in 1..Len(documents) |->
     [kind |-> "updateOne", filter |-> documents[i]._id,
      set |-> [k \in (DOMAIN documents[i] \ {"_id"}) \cup {"updated_at"} |->
                 IF k = "updated_at" THEN now ELSE documents[i][k]],
      setOnInsert |-> [created_at |-> now]]]

\* the try/catch around the upsert bulkWrite and the countDocuments that
\* verifies it: when the count fails, the counters of the written batch
\* have been added already
LessonCountUpsert(stats, n, w, countOk) ==
  IF w.threw
  THEN [stats EXCEPT !.errors = @ + n]
  ELSE LET counted == [stats EXCEPT !.inserted = @ + w.result.upsertedCount,
                                    !.updated = @ + w.result.modifiedCount,
                                    !.matched = @ + w.result.matchedCount]
       IN  IF countOk THEN counted ELSE [counted EXCEPT !.errors = @ + n]

\* mutant: the upsert before the delete of the conflicting documents
LessonBatchUpsert_UpsertFirst(coll, documents, stats, docs, ioDelete, io, countOk, now) ==
  LET w   == bulkWrite(coll, docs, LessonUpsertOps(documents, now), io)
      del == bulkWrite(coll, w.result.docs, LessonDeleteOps(documents), ioDelete)
  IN  [stats |-> LessonCountUpsert(stats, Len(documents), w, countOk),
       docs |-> del.result.docs]

\* mutant: a failed delete ends the batch as a failed upsert does
LessonBatchUpsert_DeleteAborts(coll, documents, stats, docs, ioDelete, io, countOk, now) ==
  LET del == bulkWrite(coll, docs, LessonDeleteOps(documents), ioDelete)
      w   == bulkWrite(coll, del.result.docs, LessonUpsertOps(documents, now), io)
  IN  IF del.threw
      THEN [stats |-> [stats EXCEPT !.errors = @ + Len(documents)],
            docs |-> del.result.docs]
      ELSE [stats |-> LessonCountUpsert(stats, Len(documents), w, countOk),
            docs |-> w.result.docs]

\* the delete bulkWrite is in a try/catch of its own that only logs
LessonBatchUpsert(coll, documents, stats, docs, ioDelete, io, countOk, now) ==
  LET del == bulkWrite(coll, docs, LessonDeleteOps(documents), ioDelete)
      w   == bulkWrite(coll, del.result.docs, LessonUpsertOps(documents, now), io)
  IN  [stats |-> LessonCountUpsert(stats, Len(documents), w, countOk),
       docs |-> w.result.docs]

batchUpsert(e, documents, stats, docs, ioDelete, io, countOk, now) ==
  IF e = "lesson"
  THEN LessonBatchUpsert(mongoCollection(e), documents, stats, docs, ioDelete, io,
                         countOk, now)
  ELSE BaseBatchUpsert(mongoCollection(e), documents, stats, docs, io)

(***************************************************************************)
(* State.                                                                  *)
(*   source, mongo   the relational tables and the target collections      *)
(*   pc .. stats     one sync() run: position, syncer, context, fetched    *)
(*                   rows, page, loop index, batch, stats                  *)
(*   clock           the time new Date() reads                             *)
(*   runNo, faults   the sync() calls and the failed store calls so far    *)
(* and, to state the properties, what the run has done so far:             *)
(*   outcome[i]      what happened to the i-th fetched row                 *)
(*   transformed     the rows passed to transformItem                      *)
(*   batchRows       the rows whose documents are in batch                 *)
(*   sent            the batches passed to batchUpsert, as rows            *)
(*   lastFlush       the last batchUpsert call                             *)
(*   ioFailed        whether a bulkWrite of this run lost its connection   *)
(*   runs            the runs that returned stats                          *)
(*   parts           the blocks and the prose that rawContent is made of   *)
(*   questionItems, solutionItems, prepared                                *)
(*                   the two sets given to lessonsService.prepare and what *)
(*                   it returned                                           *)
(*   questionSet, job  a row of question_sets and the extraction of it     *)
(*   counter, ids    the counter of utils/mongoId.js and the ids generated *)
(*   cursor, merged, closing                                               *)
(*                   the scan for blocks: searchStart, allQuestions and    *)
(*                   the block ends found                                  *)
(*   authStore       the state of stores/authStore.js                      *)
(*   authCalls       the calls of the store that have not settled: the     *)
(*                   effect of AuthInitializer, the request of             *)
(*                   initialize(), its retry timer, a login(); and the     *)
(*                   last response initialize() got                        *)
(***************************************************************************)
VARIABLES source, mongo, pc, entity, context, data, page, idx, batch, stats,
          clock, runNo, faults, outcome, transformed, batchRows, sent,
          lastFlush, ioFailed, runs,
          isConnected, connection, call, other,
          rawContent, extracted, jsonStr, fixed, parts,
          questionItems, solutionItems, prepared, questionSet, job,
          counter, ids, cursor, merged, closing,
          authStore, authCalls

\* one sync() run and the stores
syncVars == <<source, mongo, pc, entity, context, data, page, idx, batch, stats,
              clock, runNo, faults, outcome, transformed, batchRows, sent,
              lastFlush, ioFailed, runs>>

\* config/mongoConnection.js and the calls of reverseSyncService
serviceVars == <<isConnected, connection, call, other>>

\* questionExtractionService
extractVars == <<rawContent, extracted, jsonStr, fixed, parts>>

\* lessonsService.prepare
prepareVars == <<questionItems, solutionItems, prepared>>

\* a question set and its extraction
setVars == <<questionSet, job>>

\* utils/mongoId.js
idVars == <<counter, ids>>

\* the loops of parseQuestionsFromContent, one round at a time
scanVars == <<cursor, merged, closing>>

\* stores/authStore.js
authVars == <<authStore, authCalls>>

pipelineVars == <<prepareVars, setVars, idVars, scanVars, authVars>>

vars == <<syncVars, serviceVars, extractVars, pipelineVars>>

Oid(c) == [t |-> "oid", v |-> Hex24(c)]

\* documents another writer left in the target: one on the key the lessons
\* of chapter 1 with order 1 map to, one that differs from it in type only,
\* and an exercise_item that lesson_items row "e..." will update
ForeignExercises ==
  {[_id |-> Oid("9"), name |-> "old", order |-> 1, type |-> "EXAMPLE",
    book |-> Null, chapter |-> [t |-> "dbref", v |-> <<"chapter", Hex24("d")>>],
    created_at |-> 0, updated_at |-> 0],
   [_id |-> Oid("8"), name |-> "old", order |-> 1, type |-> "EXERCISE",
    book |-> Null, chapter |-> [t |-> "dbref", v |-> <<"chapter", Hex24("d")>>],
    created_at |-> 0, updated_at |-> 0]}

ForeignItems ==
  {[_id |-> Oid("e"), exercise |-> Null, question |-> "old"]}

InitialStores ==
  {[exercise |-> {}, exercise_item |-> {}],
   [exercise |-> ForeignExercises, exercise_item |-> ForeignItems]}

NoFlush ==
  [n |-> 0, rows |-> <<>>, documents |-> <<>>, before |-> {}, afterDelete |-> {},
   deleteThrew |-> FALSE, upsert |-> [result |-> EmptyResult({}), threw |-> FALSE],
   countThrew |-> FALSE, statsBefore |-> createStats]

\* a service call that has not been made
NoCall == [op |-> "none", pc |-> "idle", lessons |-> Null, lessonItems |-> Null,
           success |-> FALSE, error |-> FALSE]

\* no call of the service is made
NoService == call = NoCall /\ other = NoCall

\* the services that are not used
NoPrepare ==
  /\ questionItems = <<>>
  /\ solutionItems = <<>>
  /\ prepared = Null

NoQuestionSet ==
  /\ questionSet = Null
  /\ job = Null

NoIds ==
  /\ counter = 0
  /\ ids = <<>>

NoScan ==
  /\ cursor = 0
  /\ merged = <<>>
  /\ closing = <<>>

\* the initial state of the store: "null" stands for null
InitialAuthState ==
  [user |-> "null", token |-> "null", isInitialized |-> FALSE,
   isInitializing |-> FALSE, initializationAttempts |-> 0]

NoRequest == [pending |-> FALSE, sent |-> "null", retryCount |-> 0]

NoResponse == [statusCode |-> 0, sent |-> "null"]

NoTimer == -1

\* no component is mounted and no call of the store is made
NoAuthCalls ==
  [hasInitialized |-> FALSE, me |-> NoRequest, timer |-> NoTimer,
   login |-> FALSE, logins |-> 0, expired |-> FALSE, last |-> NoResponse]

NoAuth ==
  /\ authStore = InitialAuthState
  /\ authCalls = NoAuthCalls

\* the extraction service is not used
NoExtraction ==
  /\ rawContent = <<>>
  /\ extracted = Null
  /\ jsonStr = <<>>
  /\ fixed = Null
  /\ parts = <<>>
  /\ NoPrepare /\ NoQuestionSet /\ NoIds /\ NoScan /\ NoAuth

\* the syncer e over the tables src and the collections store, before sync()
\* is called
InitRun(e, src, store) ==
  /\ entity = e
  /\ source = src
  /\ mongo = store
  /\ pc = "idle"
  /\ context = EmptyContext
  /\ data = <<>>
  /\ page = 0
  /\ idx = 1
  /\ batch = <<>>
  /\ stats = createStats
  /\ clock = 1
  /\ runNo = 0
  /\ faults = 0
  /\ outcome = <<>>
  /\ transformed = {}
  /\ batchRows = <<>>
  /\ sent = <<>>
  /\ lastFlush = NoFlush
  /\ ioFailed = FALSE
  /\ runs = <<>>

\* one of the two syncer objects (lessonReverseSyncer,
\* lessonItemReverseSyncer), before its first sync(), on an open connection
Init ==
  /\ \E e \in Entities : \E src \in Sources(e), store \in InitialStores :
       InitRun(e, src, store)
  /\ isConnected = TRUE
  /\ connection = "connected"
  /\ NoService
  /\ NoExtraction

Ids(docs) == {d._id : d \in docs}

\* finalizeStats and return: the run is recorded
Summary(st, docs, failed) == [stats |-> st, ids |-> Ids(docs), clean |-> ~failed]

\* the syncer e enters sync(): createStats(), context = {}
BeginRun(e) ==
  /\ entity' = e
  /\ runNo' = runNo + 1
  /\ pc' = "presync"
  /\ stats' = createStats
  /\ context' = EmptyContext
  /\ data' = <<>>
  /\ page' = 0
  /\ idx' = 1
  /\ batch' = <<>>
  /\ outcome' = <<>>
  /\ transformed' = {}
  /\ batchRows' = <<>>
  /\ sent' = <<>>
  /\ lastFlush' = NoFlush
  /\ ioFailed' = FALSE
  /\ UNCHANGED <<source, mongo, clock, faults, runs>>

\* sync() is called on the syncer
StartSync ==
  /\ pc \in {"idle", "done", "failed"}
  /\ runNo < MaxRuns
  /\ BeginRun(entity)
  /\ UNCHANGED <<serviceVars, extractVars, pipelineVars>>

\* whether a call to a store may fail now
Errors == IF faults < MaxFaults THEN BOOLEAN ELSE {FALSE}

\* await this.preSyncHook(context): the reference maps are loaded, or a
\* select fails and sync() rethrows
PreSyncHook ==
  /\ pc = "presync"
  /\ \E error \in Errors :
       IF error
       THEN pc' = "failed" /\ faults' = faults + 1 /\ UNCHANGED context
       ELSE pc' = "fetch" /\ context' = preSyncHook(entity, source)
                         /\ UNCHANGED faults
  /\ UNCHANGED <<source, mongo, entity, data, page, idx, batch, stats, clock,
                 runNo, outcome, transformed, batchRows, sent, lastFlush,
                 ioFailed, runs>>
  /\ UNCHANGED <<serviceVars, extractVars, pipelineVars>>

Min(a, b) == IF a < b THEN a ELSE b

\* mutant: a range that ends one row late
Range_OneMore(table, from, to) == SubSeq(table, from + 1, Min(to + 2, Len(table)))

\* .range(from, to) on the table of the syncer
Range(table, from, to) == SubSeq(table, from + 1, Min(to + 1, Len(table)))

\* mutant: a page that fails ends the fetch with the rows of the pages before
FetchFailed_RowsSoFar ==
  /\ pc' = "loop"
  /\ faults' = faults + 1
  /\ stats' = [stats EXCEPT !.total = Len(data)]
  /\ outcome' = [i \in 1..Len(data) |-> "pending"]
  /\ UNCHANGED <<data, page, runs>>

\* "if (error) throw new Error(...)": sync() logs and rethrows
FetchFailed ==
  /\ pc' = "failed"
  /\ faults' = faults + 1
  /\ UNCHANGED <<data, page, stats, outcome, runs>>

\* one iteration of the loop of fetchSupabaseData; after the last page sync()
\* sets stats.total and returns at once when there is nothing to sync
FetchPage ==
  /\ pc = "fetch"
  /\ \E error \in Errors :
       IF error
       THEN FetchFailed
       ELSE LET from    == page * PAGE_SIZE
                to      == from + PAGE_SIZE - 1
                rows    == Range(source[supabaseTable(entity)], from, to)
                allData == data \o rows
                hasMore == Len(rows) > 0 /\ Len(rows) = PAGE_SIZE
                total   == [stats EXCEPT !.total = Len(allData)]
            IN  /\ data' = allData
                /\ UNCHANGED faults
                /\ page' = IF Len(rows) > 0 THEN page + 1 ELSE page
                /\ IF hasMore
                   THEN pc' = "fetch" /\ UNCHANGED <<stats, outcome, runs>>
                   ELSE /\ stats' = total
                        /\ outcome' = [i \in 1..Len(allData) |-> "pending"]
                        /\ IF Len(allData) = 0
                           THEN /\ pc' = "done"
                                /\ runs' = Append(runs,
                                     Summary(total, mongo[mongoCollection(entity)],
                                             ioFailed))
                           ELSE pc' = "loop" /\ UNCHANGED runs
  /\ UNCHANGED <<source, mongo, entity, context, idx, batch, clock, runNo,
                 transformed, batchRows, sent, lastFlush, ioFailed>>
  /\ UNCHANGED <<serviceVars, extractVars, pipelineVars>>

\* a bulkWrite on getMongoConnection(): after mongoose.disconnect() the
\* command is not sent, and the call fails
StoreIOs(n) ==
  IF connection = "connected" THEN IOs(n) ELSE {[ok |-> FALSE, applied |-> 0]}

\* the bulkWrite of the conflicting documents exists in the lesson syncer only
DeleteIOs(e, n) ==
  IF e = "lesson" THEN StoreIOs(n) ELSE {[ok |-> TRUE, applied |-> 0]}

\* new Date() in LessonReverseSyncer.batchUpsert
Nows(e) == IF e = "lesson" THEN clock..Min(clock + 1, MaxClock) ELSE {clock}

\* await this.batchUpsert(documents, st)
Flush(documents, rows, st) ==
  \E ioDelete \in DeleteIOs(entity, Len(documents)),
     io \in StoreIOs(Len(documents)), countOk \in BOOLEAN, now \in Nows(entity) :
    LET coll == mongoCollection(entity)
        \* the calls that failed on an open connection
        lost == IF connection = "connected"
                THEN (IF ioDelete.ok THEN 0 ELSE 1) + (IF io.ok THEN 0 ELSE 1)
                       + (IF countOk THEN 0 ELSE 1)
                ELSE 0
        r    == batchUpsert(entity, documents, st, mongo[coll], ioDelete, io,
                            countOk, now)
        \* what the store saw, for lastFlush
        del  == IF entity = "lesson"
                THEN bulkWrite(coll, mongo[coll], LessonDeleteOps(documents), ioDelete)
                ELSE [result |-> EmptyResult(mongo[coll]), threw |-> FALSE]
        up   == bulkWrite(coll, del.result.docs,
                          IF entity = "lesson" THEN LessonUpsertOps(documents, now)
                          ELSE BaseUpsertOps(documents), io)
    IN  /\ faults + lost <= MaxFaults
        \* countDocuments is called by the lesson syncer after a bulkWrite
        \* that returned
        /\ ~countOk => (entity = "lesson" /\ ~up.threw)
        /\ faults' = faults + lost
        /\ mongo' = [mongo EXCEPT ![coll] = r.docs]
        /\ stats' = r.stats
        /\ clock' = now
        /\ sent' = Append(sent, rows)
        /\ ioFailed' = (ioFailed \/ ~ioDelete.ok \/ ~io.ok \/ ~countOk)
        /\ lastFlush' =
             [n |-> Len(sent) + 1, rows |-> rows, documents |-> documents,
              before |-> mongo[coll], afterDelete |-> del.result.docs,
              deleteThrew |-> del.threw, upsert |-> up, countThrew |-> ~countOk,
              statsBefore |-> st]

NoFlushStep(st) ==
  /\ stats' = st
  /\ UNCHANGED <<mongo, clock, faults, sent, ioFailed, lastFlush>>

\* mutant: "if (item.ref_id === null)"
HasRefId_NullOnly(item) == item.ref_id.t # "null"

\* "if (!item.ref_id)"
HasRefId(item) == Truthy(item.ref_id)

\* mutant: a skipped row counted as an error
SkipStats_AsError(st) == [st EXCEPT !.errors = @ + 1]

\* stats.skipped++
SkipStats(st) == [st EXCEPT !.skipped = @ + 1]

\* stats.errors++ in the catch of the loop
ErrorStats(st) == [st EXCEPT !.errors = @ + 1]

\* mutant: "if (batch.length > BATCH_SIZE)"
BatchFull_Greater(b) == Len(b) > BATCH_SIZE

\* "if (batch.length >= BATCH_SIZE)"
BatchFull(b) == Len(b) >= BATCH_SIZE

\* one iteration of "for (const item of supabaseData)"
ProcessItem ==
  /\ pc = "loop"
  /\ idx <= Len(data)
  /\ idx' = idx + 1
  /\ LET item == data[idx]
         t    == transformItem(entity, item, context)
     IN  IF ~HasRefId(item)
         THEN /\ outcome' = [outcome EXCEPT ![idx] = "skipped"]
              /\ NoFlushStep(SkipStats(stats))
              /\ UNCHANGED <<transformed, batch, batchRows>>
         ELSE /\ transformed' = transformed \cup {idx}
              /\ IF t.status = "throw"
                 THEN /\ outcome' = [outcome EXCEPT ![idx] = "error"]
                      /\ NoFlushStep(ErrorStats(stats))
                      /\ UNCHANGED <<batch, batchRows>>
                 ELSE LET pushed == t.status = "doc"
                          b  == IF pushed THEN Append(batch, t.doc) ELSE batch
                          br == IF pushed THEN Append(batchRows, idx) ELSE batchRows
                          st == IF pushed THEN stats ELSE SkipStats(stats)
                      IN  /\ outcome' = [outcome EXCEPT ![idx] =
                                           IF pushed THEN "batched" ELSE "skipped"]
                          /\ IF BatchFull(b)
                             THEN /\ Flush(b, br, st)
                                  /\ batch' = <<>>
                                  /\ batchRows' = <<>>
                             ELSE /\ NoFlushStep(st)
                                  /\ batch' = b
                                  /\ batchRows' = br
  /\ UNCHANGED <<source, pc, entity, context, data, page, runNo, runs>>
  /\ UNCHANGED <<serviceVars, extractVars, pipelineVars>>

\* mutant: the remaining batch is not flushed
Finish_DropsBatch ==
  /\ pc = "loop"
  /\ idx > Len(data)
  /\ pc' = "done"
  /\ NoFlushStep(stats)
  /\ runs' = Append(runs, Summary(stats', mongo'[mongoCollection(entity)],
                                  ioFailed'))
  /\ UNCHANGED <<source, entity, context, data, page, idx, batch, batchRows,
                 runNo, outcome, transformed>>
  /\ UNCHANGED <<serviceVars, extractVars, pipelineVars>>

\* after the loop: the remaining batch is flushed, finalizeStats, return stats
Finish ==
  /\ pc = "loop"
  /\ idx > Len(data)
  /\ pc' = "done"
  /\ IF Len(batch) > 0 THEN Flush(batch, batchRows, stats) ELSE NoFlushStep(stats)
  /\ runs' = Append(runs, Summary(stats', mongo'[mongoCollection(entity)],
                                  ioFailed'))
  /\ UNCHANGED <<source, entity, context, data, page, idx, batch, batchRows,
                 runNo, outcome, transformed>>
  /\ UNCHANGED <<serviceVars, extractVars, pipelineVars>>

Next ==
  \/ StartSync
  \/ PreSyncHook
  \/ FetchPage
  \/ ProcessItem
  \/ Finish

Spec == Init /\ [][Next]_vars

\* a run is between its start and its end
InRun == pc \in {"presync", "fetch", "loop"}

RunStep == PreSyncHook \/ FetchPage \/ ProcessItem \/ Finish

\* Every await of a run returns or throws: a run that has started goes on.
\* This is WF_vars(RunStep) with ENABLED <<RunStep>>_vars written out: while
\* a run is running one of its steps can be taken, and each changes pc or
\* idx.
SpecRun == Spec /\ ([]<>(~InRun) \/ []<><<RunStep>>_vars)

TypeOK ==
  /\ pc \in {"idle", "presync", "fetch", "loop", "done", "failed"}
  /\ entity \in Entities
  /\ Len(batch) < BATCH_SIZE
  /\ Len(batch) = Len(batchRows)
  /\ runNo \in 0..MaxRuns

(***************************************************************************)
(* reverseSyncService (syncAll, syncLessons, syncLessonItems) over         *)
(* config/mongoConnection.js.  isConnected is the flag of the module,      *)
(* connection the state of the one mongoose connection.  A call is a       *)
(* record: its operation, the await it is at, the stats it has got, and    *)
(* whether an error is on its way to the caller.                           *)
(***************************************************************************)
Ops == {"syncAll", "syncLessons", "syncLessonItems"}

\* the syncer a call runs first
FirstEntity(op) == IF op = "syncLessonItems" THEN "lessonItem" ELSE "lesson"

\* the position of a call that awaits the sync() of the syncer e
Awaiting(e) == IF e = "lesson" THEN "lessons" ELSE "lessonItems"

Running == {"lessons", "lessonItems"}

StatsOf(st) == [t |-> "stats", v |-> st]

\* connectToMongoDB() up to its await: it returns at once when isConnected
connectToMongoDB(c) ==
  IF isConnected THEN [c EXCEPT !.pc = Awaiting(FirstEntity(c.op))]
  ELSE [c EXCEPT !.pc = "connecting"]

\* the finally block of a call, up to its await: disconnectFromMongoDB()
\* returns at once when isConnected is false, else it calls
\* mongoose.disconnect(), which closes the connection
disconnectFromMongoDB(c) ==
  IF isConnected THEN [c EXCEPT !.pc = "disconnecting"]
  ELSE [c EXCEPT !.pc = IF c.error THEN "thrown" ELSE "returned"]

Closed == IF isConnected THEN "disconnected" ELSE connection

\* the service method is called
CallService ==
  /\ call.op \in Ops
  /\ call.pc = "idle"
  /\ call' = connectToMongoDB(call)
  /\ IF isConnected THEN BeginRun(FirstEntity(call.op)) ELSE UNCHANGED syncVars
  /\ UNCHANGED <<isConnected, connection, other, extractVars, pipelineVars>>

\* mongoose.connect() settles: isConnected = true and the first sync() is
\* entered, or the error is rethrown and the finally block runs
Connected ==
  /\ call.pc = "connecting"
  /\ \E error \in BOOLEAN :
       IF error
       THEN /\ call' = disconnectFromMongoDB([call EXCEPT !.error = TRUE])
            /\ connection' = Closed
            /\ UNCHANGED <<isConnected, syncVars>>
       ELSE /\ isConnected' = TRUE
            /\ connection' = "connected"
            /\ call' = [call EXCEPT !.pc = Awaiting(FirstEntity(call.op))]
            /\ BeginRun(FirstEntity(call.op))
  /\ UNCHANGED <<other, extractVars, pipelineVars>>

\* mutant: syncAll goes on to the lesson items after a failed lesson sync
RunThrew_Swallowed ==
  /\ call.pc \in Running
  /\ pc = "failed"
  /\ IF call.op = "syncAll" /\ call.pc = "lessons"
     THEN /\ call' = [call EXCEPT !.pc = "lessonItems"]
          /\ BeginRun("lessonItem")
          /\ UNCHANGED connection
     ELSE /\ call' = disconnectFromMongoDB([call EXCEPT !.error = TRUE])
          /\ connection' = Closed
          /\ UNCHANGED syncVars
  /\ UNCHANGED <<isConnected, other, extractVars, pipelineVars>>

\* the sync() a call awaits throws: the error leaves the try block, nothing
\* after the await runs, and the finally block does
RunThrew ==
  /\ call.pc \in Running
  /\ pc = "failed"
  /\ call' = disconnectFromMongoDB([call EXCEPT !.error = TRUE])
  /\ connection' = Closed
  /\ UNCHANGED <<isConnected, other, syncVars, extractVars, pipelineVars>>

\* the sync() a call awaits returns its stats: syncAll goes on from the
\* lessons to the lesson items, every other await is the last of the try block
RunDone ==
  /\ call.pc \in Running
  /\ pc = "done"
  /\ IF call.op = "syncAll" /\ call.pc = "lessons"
     THEN /\ call' = [call EXCEPT !.lessons = StatsOf(stats), !.pc = "lessonItems"]
          /\ BeginRun("lessonItem")
          /\ UNCHANGED connection
     ELSE /\ call' = disconnectFromMongoDB(
                       IF call.pc = "lessons"
                       THEN [call EXCEPT !.lessons = StatsOf(stats)]
                       ELSE [call EXCEPT !.lessonItems = StatsOf(stats),
                                         !.success = (call.op = "syncAll")])
          /\ connection' = Closed
          /\ UNCHANGED syncVars
  /\ UNCHANGED <<isConnected, other, extractVars, pipelineVars>>

\* mongoose.disconnect() settles: isConnected = false and the call ends, or
\* the error is rethrown from the finally block
Disconnected ==
  /\ call.pc = "disconnecting"
  /\ \E error \in BOOLEAN :
       IF error
       THEN /\ call' = [call EXCEPT !.pc = "thrown", !.error = TRUE]
            /\ UNCHANGED isConnected
       ELSE /\ call' = [call EXCEPT !.pc = IF call.error THEN "thrown"
                                           ELSE "returned"]
            /\ isConnected' = FALSE
  /\ UNCHANGED <<connection, other, syncVars, extractVars, pipelineVars>>

\* the tables of a syncAll(): lessons and their items
AllSources ==
  {[books |-> Books, chapters |-> Chapters, lessons |-> MkTable(l),
    lesson_items |-> MkTable(it)] :
     l \in SeqsUpTo({LessonRow(Str(Hex24("a")), 1, 1),
                     LessonRow(Str(Hex24("c")), 2, 2),
                     LessonRow(Null, 1, 1)}, MaxRows - 1),
     it \in SeqsUpTo({ItemRow(Str(Hex24("e")), 1, "q1"),
                      ItemRow(Str(Hex24("1")), 2, "q2"),
                      ItemRow(Undefined, 1, "q1")}, MaxRows - 1)}

\* scripts/run-reverse-sync.js: one syncAll() in a process that has not
\* connected
InitSyncAll ==
  /\ \E src \in AllSources, store \in InitialStores : InitRun("lesson", src, store)
  /\ isConnected = FALSE
  /\ connection = "disconnected"
  /\ call = [NoCall EXCEPT !.op = "syncAll"]
  /\ other = NoCall
  /\ NoExtraction

NextSyncAll ==
  \/ CallService
  \/ Connected
  \/ PreSyncHook
  \/ FetchPage
  \/ ProcessItem
  \/ Finish
  \/ RunDone
  \/ RunThrew
  \/ Disconnected

SpecSyncAll == InitSyncAll /\ [][NextSyncAll]_vars

(***************************************************************************)
(* Two calls of the service in one process.  The first is the call above.  *)
(* The second is a syncLessonItems() while the lesson_items table is       *)
(* empty: its sync() loads the lesson reference map, fetches no row and    *)
(* returns stats with total 0, without a call to the target.               *)
(***************************************************************************)
OtherCall ==
  /\ other.op \in Ops
  /\ other.pc = "idle"
  /\ other' = connectToMongoDB(other)
  /\ UNCHANGED <<isConnected, connection, call, syncVars, extractVars, pipelineVars>>

OtherConnected ==
  /\ other.pc = "connecting"
  /\ \E error \in BOOLEAN :
       IF error
       THEN /\ other' = disconnectFromMongoDB([other EXCEPT !.error = TRUE])
            /\ connection' = Closed
            /\ UNCHANGED isConnected
       ELSE /\ isConnected' = TRUE
            /\ connection' = "connected"
            /\ other' = [other EXCEPT !.pc = Awaiting(FirstEntity(other.op))]
  /\ UNCHANGED <<call, syncVars, extractVars, pipelineVars>>

\* lessonItemReverseSyncer.sync() over no rows returns or throws, and the
\* finally block of syncLessonItems() runs
OtherSync ==
  /\ other.pc = "lessonItems"
  /\ source.lesson_items = <<>>
  /\ \E error \in BOOLEAN :
       other' = disconnectFromMongoDB(
                  IF error THEN [other EXCEPT !.error = TRUE]
                  ELSE [other EXCEPT !.lessonItems = StatsOf(createStats)])
  /\ connection' = Closed
  /\ UNCHANGED <<isConnected, call, syncVars, extractVars, pipelineVars>>

OtherDisconnected ==
  /\ other.pc = "disconnecting"
  /\ \E error \in BOOLEAN :
       IF error
       THEN /\ other' = [other EXCEPT !.pc = "thrown", !.error = TRUE]
            /\ UNCHANGED isConnected
       ELSE /\ other' = [other EXCEPT !.pc = IF other.error THEN "thrown"
                                             ELSE "returned"]
            /\ isConnected' = FALSE
  /\ UNCHANGED <<connection, call, syncVars, extractVars, pipelineVars>>

\* the lessons the first call syncs
ConcurrentSources ==
  {[books |-> Books, chapters |-> Chapters, lessons |-> MkTable(l),
    lesson_items |-> <<>>] :
     l \in SeqsUpTo({LessonRow(Str(Hex24("a")), 1, 1),
                     LessonRow(Str(Hex24("b")), 1, 1),
                     LessonRow(Str(Hex24("c")), 2, 2)}, MaxRows)}

InitConcurrent ==
  /\ \E src \in ConcurrentSources, store \in InitialStores :
       InitRun("lesson", src, store)
  /\ isConnected = FALSE
  /\ connection = "disconnected"
  /\ call \in {[NoCall EXCEPT !.op = op] : op \in {"syncLessons", "syncAll"}}
  /\ other = [NoCall EXCEPT !.op = "syncLessonItems"]
  /\ NoExtraction

NextConcurrent ==
  \/ NextSyncAll
  \/ OtherCall
  \/ OtherConnected
  \/ OtherSync
  \/ OtherDisconnected

SpecConcurrent == InitConcurrent /\ [][NextConcurrent]_vars

(***************************************************************************)
(* questionExtractionService: fixInvalidEscapeSequences and                *)
(* parseQuestionsFromContent.  A text is a sequence of characters, each a  *)
(* string of length one; the property names of the blocks ("questions",    *)
(* "question_label", "text") and the literal null are written as one       *)
(* element each: they hold letters only, which no scanner of the service   *)
(* tells apart, and no text of the model has one after a backslash.        *)
(***************************************************************************)
Quote == "\""

Backslash == "\\"

Newline == "\n"

\* mutant: "u" is not taken for a valid escape
ValidEscapes_WithoutU == {Quote, Backslash, "/", "b", "f", "n", "r", "t"}

\* mutant: a backslash after a backslash is not taken for a valid escape
ValidEscapes_WithoutBackslash == {Quote, "/", "b", "f", "n", "r", "t", "u"}

\* '"\\/bfnrtu'
ValidEscapes == {Quote, Backslash, "/", "b", "f", "n", "r", "t", "u"}

\* the two loops of fixInvalidEscapeSequences from index i (from 1): inString
\* says that i is in the inner loop
RECURSIVE FixFrom(_, _, _)
FixFrom(str, i, inString) ==
  IF i > Len(str) THEN <<>>
  ELSE IF ~inString
  THEN <<str[i]>> \o FixFrom(str, i + 1, str[i] = Quote)
  ELSE IF str[i] = Backslash /\ i + 1 <= Len(str)
  THEN IF str[i + 1] \in ValidEscapes
       THEN <<str[i], str[i + 1]>> \o FixFrom(str, i + 2, TRUE)
       ELSE <<Backslash, Backslash, str[i + 1]>> \o FixFrom(str, i + 2, TRUE)
  ELSE IF str[i] = Quote
  THEN <<Quote>> \o FixFrom(str, i + 1, FALSE)
  ELSE <<str[i]>> \o FixFrom(str, i + 1, TRUE)

fixInvalidEscapeSequences(str) == FixFrom(str, 1, FALSE)

(***************************************************************************)
(* JSON.parse on the values the blocks are made of: objects, arrays,       *)
(* strings, non-negative integers and null.  A value is a record [t, v];   *)
(* an object keeps its members as a sequence of <<key, value>>.  Every     *)
(* parser returns [ok, val, next]: next is the index after what it read.   *)
(***************************************************************************)
Whitespace == {" ", Newline, "\t", "\r"}

Digits == {"0", "1", "2", "3", "4", "5", "6", "7", "8", "9"}

DigitValue(c) ==
  CASE c = "0" -> 0 [] c = "1" -> 1 [] c = "2" -> 2 [] c = "3" -> 3
    [] c = "4" -> 4 [] c = "5" -> 5 [] c = "6" -> 6 [] c = "7" -> 7
    [] c = "8" -> 8 [] c = "9" -> 9

\* String(value) of a number
RECURSIVE Decimal(_)
Decimal(n) ==
  LET last == CHOOSE c \in Digits : DigitValue(c) = n % 10
  IN  IF n < 10 THEN <<last>> ELSE Decimal(n \div 10) \o <<last>>

JString(chars) == [t |-> "string", v |-> chars]

JNumber(n) == [t |-> "number", v |-> n]

JArray(items) == [t |-> "array", v |-> items]

JObject(members) == [t |-> "object", v |-> members]

SyntaxError == [ok |-> FALSE, val |-> Null, next |-> 0]

Parsed(val, next) == [ok |-> TRUE, val |-> val, next |-> next]

RECURSIVE SkipWhitespace(_, _)
SkipWhitespace(s, i) ==
  IF i <= Len(s) /\ s[i] \in Whitespace THEN SkipWhitespace(s, i + 1) ELSE i

\* the escape sequences of one letter
JsonEscapes == {Quote, Backslash, "/", "b", "f", "n", "r", "t"}

\* the character an escape sequence of one letter stands for
Unescape(c) ==
  CASE c = "n" -> Newline [] c = "t" -> "\t" [] c = "r" -> "\r"
    [] c = "b" -> "<BS>" [] c = "f" -> "\f" [] OTHER -> c

\* the character \uXXXX stands for, named by its code point
CodePoint(s, i) == "\\u" \o s[i] \o s[i + 1] \o s[i + 2] \o s[i + 3]

\* the characters of a string literal from index i, after its opening quote
RECURSIVE ParseString(_, _, _)
ParseString(s, i, acc) ==
  IF i > Len(s) THEN SyntaxError
  ELSE IF s[i] = Quote THEN Parsed(JString(acc), i + 1)
  ELSE IF s[i] = Backslash
  THEN IF i + 1 > Len(s) THEN SyntaxError
       ELSE IF s[i + 1] \in JsonEscapes
       THEN ParseString(s, i + 2, Append(acc, Unescape(s[i + 1])))
       ELSE IF /\ s[i + 1] = "u"
               /\ i + 5 <= Len(s)
               /\ \A k \in 2..5 : s[i + k] \in HexDigits
       THEN ParseString(s, i + 6, Append(acc, CodePoint(s, i + 2)))
       ELSE SyntaxError
  ELSE IF s[i] \in {Newline, "\t", "\r", "\f"} THEN SyntaxError
  ELSE ParseString(s, i + 1, Append(acc, s[i]))

RECURSIVE ParseDigits(_, _, _)
ParseDigits(s, i, n) ==
  IF i <= Len(s) /\ s[i] \in Digits
  THEN ParseDigits(s, i + 1, 10 * n + DigitValue(s[i]))
  ELSE Parsed(JNumber(n), i)

RECURSIVE ParseValue(_, _)
RECURSIVE ParseElements(_, _, _)
RECURSIVE ParseMembers(_, _, _)

\* the elements of an array from index i, where an element must start
ParseElements(s, i, acc) ==
  LET e == ParseValue(s, i)
      j == SkipWhitespace(s, e.next)
  IN  IF ~e.ok \/ j > Len(s) THEN SyntaxError
      ELSE IF s[j] = "]" THEN Parsed(JArray(Append(acc, e.val)), j + 1)
      ELSE IF s[j] = "," THEN ParseElements(s, j + 1, Append(acc, e.val))
      ELSE SyntaxError

\* the members of an object from index i, where a key must start
ParseMembers(s, i, acc) ==
  LET k == SkipWhitespace(s, i)
      key == IF k <= Len(s) /\ s[k] = Quote THEN ParseString(s, k + 1, <<>>)
             ELSE SyntaxError
      c == SkipWhitespace(s, key.next)
      val == IF key.ok /\ c <= Len(s) /\ s[c] = ":" THEN ParseValue(s, c + 1)
             ELSE SyntaxError
      j == SkipWhitespace(s, val.next)
      members == Append(acc, <<key.val.v, val.val>>)
  IN  IF ~val.ok \/ j > Len(s) THEN SyntaxError
      ELSE IF s[j] = "}" THEN Parsed(JObject(members), j + 1)
      ELSE IF s[j] = "," THEN ParseMembers(s, j + 1, members)
      ELSE SyntaxError

ParseValue(s, i) ==
  LET j == SkipWhitespace(s, i)
      k == SkipWhitespace(s, j + 1)
  IN  IF j > Len(s) THEN SyntaxError
      ELSE IF s[j] = Quote THEN ParseString(s, j + 1, <<>>)
      ELSE IF s[j] = "null" THEN Parsed(Null, j + 1)
      ELSE IF s[j] = "0"
      THEN IF j + 1 <= Len(s) /\ s[j + 1] \in Digits THEN SyntaxError
           ELSE Parsed(JNumber(0), j + 1)
      ELSE IF s[j] \in Digits THEN ParseDigits(s, j, 0)
      ELSE IF s[j] = "["
      THEN IF k <= Len(s) /\ s[k] = "]" THEN Parsed(JArray(<<>>), k + 1)
           ELSE ParseElements(s, j + 1, <<>>)
      ELSE IF s[j] = "{"
      THEN IF k <= Len(s) /\ s[k] = "}" THEN Parsed(JObject(<<>>), k + 1)
           ELSE ParseMembers(s, j + 1, <<>>)
      ELSE SyntaxError

\* JSON.parse(text): one value, and nothing but whitespace after it
JSONParse(s) ==
  LET r == ParseValue(s, 1)
  IN  IF r.ok /\ SkipWhitespace(s, r.next) > Len(s) THEN r ELSE SyntaxError

(***************************************************************************)
(* parseQuestionsFromContent.  Indices are from 1: searchStart is the      *)
(* first index searched, jsonEnd the index after the closing brace, and 0  *)
(* stands for the -1 of the source.                                        *)
(***************************************************************************)
MatchesAt(s, k, pattern) ==
  /\ k + Len(pattern) - 1 <= Len(s)
  /\ SubSeq(s, k, k + Len(pattern) - 1) = pattern

\* \s of a regular expression
RegexSpace == {" ", Newline, "\t", "\r", "\f"}

RECURSIVE SkipSpaces(_, _)
SkipSpaces(s, i) ==
  IF i <= Len(s) /\ s[i] \in RegexSpace THEN SkipSpaces(s, i + 1) ELSE i

\* '{"questions"'
Pattern1 == <<"{", Quote, "questions", Quote>>

\* '{ "questions"'
Pattern2 == <<"{", " ", Quote, "questions", Quote>>

\* /\{\s*"questions"\s*:\s*\[/ matches at index k
Pattern3At(s, k) ==
  LET a == SkipSpaces(s, k + 1)
      b == SkipSpaces(s, a + 3)
      c == SkipSpaces(s, b + 1)
  IN  /\ s[k] = "{"
      /\ MatchesAt(s, a, <<Quote, "questions", Quote>>)
      /\ b <= Len(s) /\ s[b] = ":"
      /\ c <= Len(s) /\ s[c] = "["

\* the earliest of the three matches from searchStart on, or 0
JsonStart(s, searchStart) ==
  LET found == {k \in searchStart..Len(s) :
                  \/ MatchesAt(s, k, Pattern1)
                  \/ MatchesAt(s, k, Pattern2)
                  \/ Pattern3At(s, k)}
  IN  IF found = {} THEN 0 ELSE CHOOSE k \in found : \A j \in found : k <= j

\* a round of the loop gets past the three continue statements
Counted(c, inString, escapeNext) ==
  ~escapeNext /\ c \notin {Backslash, Quote} /\ ~inString

\* "if (char === '{') braceCount++; if (char === '}') braceCount--"
Braces(c, braceCount) ==
  braceCount + (IF c = "{" THEN 1 ELSE 0) - (IF c = "}" THEN 1 ELSE 0)

\* the loop that looks for the matching closing brace, from index i
RECURSIVE MatchBrace(_, _, _, _, _)
MatchBrace(s, i, braceCount, inString, escapeNext) ==
  IF i > Len(s) THEN 0
  ELSE IF Counted(s[i], inString, escapeNext) /\ Braces(s[i], braceCount) = 0
  THEN i + 1
  ELSE MatchBrace(s, i + 1,
                  IF Counted(s[i], inString, escapeNext)
                  THEN Braces(s[i], braceCount) ELSE braceCount,
                  IF ~escapeNext /\ s[i] = Quote THEN ~inString ELSE inString,
                  ~escapeNext /\ s[i] = Backslash)

\* object[key]: the last member of that name
Member(object, key) ==
  IF object.t # "object" THEN Undefined
  ELSE LET at == {i \in 1..Len(object.v) : object.v[i][1] = key}
       IN  IF at = {} THEN Undefined
           ELSE object.v[CHOOSE i \in at : \A j \in at : j <= i][2]

\* "parsed.questions && Array.isArray(parsed.questions)": the questions pushed
QuestionsOf(parsed) ==
  LET questions == Member(parsed, <<"questions">>)
  IN  IF questions.t = "array" THEN questions.v ELSE <<>>

\* the catch of the first JSON.parse: the block is repaired and parsed again
ParseFixed(str, first) ==
  IF first.ok THEN first ELSE JSONParse(fixInvalidEscapeSequences(str))

\* the two attempts to parse a block
ParseBlock(str) == ParseFixed(str, JSONParse(str))

\* mutant: a block that cannot be parsed ends the scan
NextSearchStart_StopsAtFailure(s, jsonStart, jsonEnd) ==
  IF jsonEnd = 0 THEN jsonStart + 1
  ELSE IF ParseBlock(SubSeq(s, jsonStart, jsonEnd - 1)).ok THEN jsonEnd
  ELSE Len(s) + 1

\* mutant: a candidate without closing brace is searched from again
NextSearchStart_Stays(s, jsonStart, jsonEnd) ==
  IF jsonEnd # 0 THEN jsonEnd ELSE jsonStart

\* "searchStart = jsonEnd" / "searchStart = jsonStart + 1"
NextSearchStart(s, jsonStart, jsonEnd) ==
  IF jsonEnd # 0 THEN jsonEnd ELSE jsonStart + 1

\* the while (true) loop: the questions of all blocks, in order
RECURSIVE ScanBlocks(_, _, _)
ScanBlocks(s, searchStart, allQuestions) ==
  LET jsonStart == JsonStart(s, searchStart)
      jsonEnd   == MatchBrace(s, jsonStart, 0, FALSE, FALSE)
      parsed    == ParseBlock(SubSeq(s, jsonStart, jsonEnd - 1))
      pushed    == IF jsonEnd # 0 /\ parsed.ok THEN QuestionsOf(parsed.val)
                   ELSE <<>>
  IN  IF jsonStart = 0 THEN allQuestions
      ELSE ScanBlocks(s, NextSearchStart(s, jsonStart, jsonEnd),
                      allQuestions \o pushed)

\* whether a value is truthy
JsTruthy(x) ==
  /\ x.t \notin {"null", "undefined"}
  /\ ~(x.t = "string" /\ x.v = <<>>)
  /\ ~(x.t = "number" /\ x.v = 0)

\* mutant: the label is used as it is read, without "|| ''"
LabelOf_AsIs(q) == Member(q, <<"question_label">>)

\* "q.question_label || ''"
LabelOf(q) ==
  LET label == Member(q, <<"question_label">>)
  IN  IF JsTruthy(label) THEN label ELSE JString(<<>>)

\* Set.prototype.has: strings and numbers by value, a number is no string,
\* and an object is only the same as itself
SameValueZero(x, y) == x.t = y.t /\ x.t \in {"string", "number"} /\ x.v = y.v

\* the loop over allQuestions with seenLabels, from question i on
RECURSIVE Deduplicate(_, _, _, _)
Deduplicate(allQuestions, i, seenLabels, uniqueQuestions) ==
  IF i > Len(allQuestions) THEN uniqueQuestions
  ELSE LET label == LabelOf(allQuestions[i])
           seen  == \E k \in 1..Len(seenLabels) : SameValueZero(seenLabels[k], label)
       IN  IF seen
           THEN Deduplicate(allQuestions, i + 1, seenLabels, uniqueQuestions)
           ELSE Deduplicate(allQuestions, i + 1, Append(seenLabels, label),
                            Append(uniqueQuestions, allQuestions[i]))

(***************************************************************************)
(* The Markdown fallback: the three questionPatterns, tried in order.  The *)
(* word "Question" is written as the characters "Q" and "uestion".  The    *)
(* texts of this model have none of the letters a to e, so neither of the  *)
(* two choice patterns matches and every question has no choices.          *)
(***************************************************************************)
questionPatterns == <<1, 2, 3>>

RECURSIVE SkipDigits(_, _)
SkipDigits(s, i) ==
  IF i <= Len(s) /\ s[i] \in Digits THEN SkipDigits(s, i + 1) ELSE i

\* the index of the label when what precedes (\d+) in pattern k matches at
\* index a, else 0:  nothing,  Q(?:uestion)?\.?\s*  and  \(
LabelAt(k, s, a) ==
  CASE k = 1 -> a
    [] k = 2 ->
         IF a <= Len(s) /\ s[a] \in {"Q", "q"}
         THEN LET word == IF a + 1 <= Len(s) /\ s[a + 1] \in {"uestion", "UESTION"}
                          THEN a + 2 ELSE a + 1
                  dot  == IF word <= Len(s) /\ s[word] = "." THEN word + 1 ELSE word
              IN  SkipSpaces(s, dot)
         ELSE 0
    [] k = 3 -> IF a <= Len(s) /\ s[a] = "(" THEN a + 1 ELSE 0

\* what follows (\d+) in pattern k:  [\.\)]  [\.\:\)]  and  \)
LabelClosers(k) ==
  CASE k = 1 -> {".", ")"}
    [] k = 2 -> {".", ":", ")"}
    [] k = 3 -> {")"}

\* the first alternative of the lookahead of pattern k, behind the \n\s* at
\* index a:  \d+[\.\)]   Q(?:uestion)?\.?\s*\d+   and  \(\d+\)
NextQuestionAt(k, s, a) ==
  LET l == LabelAt(k, s, a)
      d == SkipDigits(s, l)
  IN  /\ l > 0
      /\ d > l
      /\ k # 2 => d <= Len(s) /\ s[d] \in LabelClosers(k)

\* the lookahead (?=\n\s*<next question>|\n\s*$|$) of pattern k holds at
\* index e
QuestionEndsAt(k, s, e) ==
  \/ e > Len(s)
  \/ /\ s[e] = Newline
     /\ LET a == SkipSpaces(s, e + 1)
        IN  a > Len(s) \/ NextQuestionAt(k, s, a)

NoMatch == [ok |-> FALSE, label |-> <<>>, block |-> <<>>, end |-> 0]

\* pattern k tried at index p.  Behind the label the patterns 1 and 3 want
\* \s+ and pattern 2 \s*; the greedy spaces give one character back to
\* (.+?) when they run to the end of the text
QuestionAt(k, s, p) ==
  LET begin == IF p = 1 THEN 1 ELSE p + 1
      a     == SkipSpaces(s, begin)
      l     == LabelAt(k, s, a)
      d     == SkipDigits(s, l)
      w     == SkipSpaces(s, d + 1)
      from  == IF w <= Len(s) THEN w ELSE Len(s)
      end   == CHOOSE e \in (from + 1)..(Len(s) + 1) :
                 /\ QuestionEndsAt(k, s, e)
                 /\ \A j \in (from + 1)..(e - 1) : ~QuestionEndsAt(k, s, j)
  IN  IF /\ p = 1 \/ s[p] = Newline
         /\ l > 0
         /\ d > l /\ d <= Len(s) /\ s[d] \in LabelClosers(k)
         /\ k # 2 => w > d + 1
         /\ from > (IF k = 2 THEN d ELSE d + 1)
      THEN [ok |-> TRUE, label |-> SubSeq(s, l, d - 1),
            block |-> SubSeq(s, from, end - 1), end |-> end]
      ELSE NoMatch

\* String.prototype.trim
RECURSIVE Trim(_)
Trim(str) ==
  IF str = <<>> THEN str
  ELSE IF Head(str) \in RegexSpace THEN Trim(Tail(str))
  ELSE IF str[Len(str)] \in RegexSpace THEN Trim(SubSeq(str, 1, Len(str) - 1))
  ELSE str

\* { question_label: questionLabel, text: questionText.trim(), choices }
MarkdownQuestion(match) ==
  JObject(<< <<<<"question_label">>, JString(match.label)>>,
             <<<<"text">>, JString(Trim(match.block))>>,
             <<<<"choices">>, JArray(<<>>)>> >>)

\* the while (regex.exec(rawContent)) loop of pattern k, from lastIndex on
RECURSIVE MarkdownQuestions(_, _, _, _)
MarkdownQuestions(k, s, lastIndex, questions) ==
  LET found == {p \in lastIndex..Len(s) : QuestionAt(k, s, p).ok}
      first == CHOOSE p \in found : \A j \in found : p <= j
      match == QuestionAt(k, s, first)
  IN  IF found = {} THEN questions
      ELSE MarkdownQuestions(k, s, match.end,
                             Append(questions, MarkdownQuestion(match)))

\* mutant: the loop goes on to the next pattern
PatternsDone_Never(questions) == FALSE

\* if (questions.length > 0) break
PatternsDone(questions) == Len(questions) > 0

\* for (const regex of questionPatterns), from the k-th pattern on
RECURSIVE MarkdownFallback(_, _, _)
MarkdownFallback(s, k, questions) ==
  IF k > Len(questionPatterns) THEN questions
  ELSE LET yield == MarkdownQuestions(questionPatterns[k], s, 1, questions)
       IN  IF PatternsDone(yield) THEN yield
           ELSE MarkdownFallback(s, k + 1, yield)

\* the fallback is reached when "allQuestions.length > 0" fails
UseFallback(allQuestions) == Len(allQuestions) = 0

\* mutant: the catch block returns the questions read before the exception
Returned_KeepsItems(content, allQuestions) ==
  IF \E i \in 1..Len(allQuestions) : allQuestions[i].t = "null"
  THEN [questions |-> SelectSeq(allQuestions, LAMBDA q : q.t # "null"),
        raw_content |-> content, parse_error |-> TRUE]
  ELSE IF UseFallback(allQuestions)
  THEN [questions |-> MarkdownFallback(content, 1, <<>>), parse_error |-> FALSE]
  ELSE [questions |-> Deduplicate(allQuestions, 1, <<>>, <<>>),
        parse_error |-> FALSE]

\* the result of parseQuestionsFromContent once the blocks are scanned; the
\* read of q.question_label throws for a question that is null, and the catch
\* block returns the raw content with no question
Returned(content, allQuestions) ==
  IF \E i \in 1..Len(allQuestions) : allQuestions[i].t = "null"
  THEN [questions |-> <<>>, raw_content |-> content, parse_error |-> TRUE]
  ELSE IF UseFallback(allQuestions)
  THEN [questions |-> MarkdownFallback(content, 1, <<>>), parse_error |-> FALSE]
  ELSE [questions |-> Deduplicate(allQuestions, 1, <<>>, <<>>),
        parse_error |-> FALSE]

parseQuestionsFromContent(content) ==
  Returned(content, ScanBlocks(content, 1, <<>>))

(***************************************************************************)
(* fixInvalidEscapeSequences applied to every text of at most MaxJsonLen   *)
(* characters: quotes, backslashes, letters that are ("u", "n") and are    *)
(* not ("x") escape letters, and a character of the structure.             *)
(***************************************************************************)
MaxJsonLen == 5

RepairChars == {Quote, Backslash, "u", "n", "x", "["}

JsonStrs == UNION {[1..n -> RepairChars] : n \in 0..MaxJsonLen}

\* the reverse sync is not used
IdleSync ==
  /\ InitRun("lesson", [books |-> Books, chapters |-> Chapters,
                        lessons |-> <<>>, lesson_items |-> <<>>],
             [exercise |-> {}, exercise_item |-> {}])
  /\ isConnected = FALSE
  /\ connection = "disconnected"
  /\ NoService

InitRepair ==
  /\ IdleSync
  /\ jsonStr \in JsonStrs
  /\ fixed = Null
  /\ rawContent = <<>>
  /\ extracted = Null
  /\ parts = <<>>
  /\ NoPrepare /\ NoQuestionSet /\ NoIds /\ NoScan /\ NoAuth

FixInvalidEscapeSequences ==
  /\ fixed = Null
  /\ fixed' = JString(fixInvalidEscapeSequences(jsonStr))
  /\ UNCHANGED <<jsonStr, rawContent, extracted, parts, syncVars, serviceVars,
               pipelineVars>>

NextRepair == FixInvalidEscapeSequences

SpecRepair == InitRepair /\ [][NextRepair]_vars

(***************************************************************************)
(* parseQuestionsFromContent applied to the texts made of at most MaxParts *)
(* parts: blocks of questions in the three forms the patterns look for,    *)
(* blocks that JSON.parse rejects, and prose.                              *)
(***************************************************************************)
MaxParts == 3

Quoted(str) == <<Quote>> \o str \o <<Quote>>

\* the text {"question_label":label}
Labelled(label) ==
  <<"{">> \o Quoted(<<"question_label">>) \o <<":">> \o label \o <<"}">>

\* the text {"question_label":label,"text":text}
ItemText(label, text) ==
  <<"{">> \o Quoted(<<"question_label">>) \o <<":">> \o label \o <<",">>
          \o Quoted(<<"text">>) \o <<":">> \o text \o <<"}">>

\* the values of these texts
Label(label) == JObject(<< <<<<"question_label">>, label>> >>)

Question(label, text) ==
  JObject(<< <<<<"question_label">>, label>>, <<<<"text">>, text>> >>)

RECURSIVE Joined(_)
Joined(texts) ==
  IF texts = <<>> THEN <<>>
  ELSE IF Len(texts) = 1 THEN texts[1]
  ELSE texts[1] \o <<",">> \o Joined(Tail(texts))

\* a block of questions behind the opening open
BlockText(open, itemTexts) == open \o <<"[">> \o Joined(itemTexts) \o <<"]", "}">>

Compact == <<"{">> \o Quoted(<<"questions">>) \o <<":">>

Spaced == <<"{", " ">> \o Quoted(<<"questions">>) \o <<":", " ">>

Indented == <<"{", Newline, " ">> \o Quoted(<<"questions">>) \o <<" ", ":">>

Part(kind, chars, items) == [kind |-> kind, chars |-> chars, items |-> items]

\* the text {"text":text}
TextOnly(text) == <<"{">> \o Quoted(<<"text">>) \o <<":">> \o text \o <<"}">>

PartNames == {"two", "spaced", "indented", "empty", "numeric", "unlabelled",
              "missing", "escaped", "comma", "unclosed", "nullItem", "prose",
              "numbered"}

\* kind "block": a well-formed block whose labels are strings;
\* "numeric", "unlabelled": a block that parses, with other labels or none;
\* "escaped": a block that parses after the repair only;
\* "rejected": a block with balanced braces that JSON.parse rejects twice;
\* "unclosed": the opening of a block that is never closed;
\* "nullItem": a block whose only question is null;  "prose": no block
PartOf(name) ==
  CASE name = "two" ->
         Part("block",
              BlockText(Compact, <<Labelled(Quoted(<<"5">>)),
                                   Labelled(Quoted(<<"6">>))>>),
              <<Label(JString(<<"5">>)), Label(JString(<<"6">>))>>)
    [] name = "spaced" ->
         Part("block",
              BlockText(Spaced, <<ItemText(Quoted(<<"5">>), Quoted(<<"y">>))>>),
              <<Question(JString(<<"5">>), JString(<<"y">>))>>)
    [] name = "indented" ->
         Part("block",
              BlockText(Indented, <<Labelled(Quoted(<<"}">>)),
                                    Labelled(Quoted(<<"6">>))>>),
              <<Label(JString(<<"}">>)), Label(JString(<<"6">>))>>)
    [] name = "empty" ->
         Part("block", BlockText(Compact, <<>>), <<>>)
    [] name = "numeric" ->
         Part("numeric", BlockText(Compact, <<Labelled(<<"5">>)>>),
              <<Label(JNumber(5))>>)
    [] name = "unlabelled" ->
         Part("unlabelled",
              BlockText(Compact, <<Labelled(Quoted(<<>>)), Labelled(<<"0">>)>>),
              <<Label(JString(<<>>)), Label(JNumber(0))>>)
    [] name = "missing" ->
         Part("unlabelled",
              BlockText(Compact, <<ItemText(<<"null">>, Quoted(<<"y">>)),
                                   TextOnly(Quoted(<<"z">>))>>),
              <<Question(Null, JString(<<"y">>)),
                JObject(<< <<<<"text">>, JString(<<"z">>)>> >>)>>)
    [] name = "escaped" ->
         Part("escaped",
              BlockText(Compact, <<Labelled(Quoted(<<Backslash, "x">>))>>),
              <<Label(JString(<<Backslash, "x">>))>>)
    [] name = "comma" ->
         Part("rejected",
              BlockText(Compact, <<Labelled(Quoted(<<"9">>)), <<>>>>), <<>>)
    [] name = "unclosed" ->
         Part("unclosed", Compact \o <<"[">>, <<>>)
    [] name = "nullItem" ->
         Part("nullItem", BlockText(Compact, <<<<"null">>>>), <<Null>>)
    [] name = "prose" ->
         Part("prose", <<"x", " ", "{", "x", "}">>, <<>>)
    [] name = "numbered" ->
         Part("prose", <<Newline, "1", ".", " ", "x", Newline>>, <<>>)

RECURSIVE ContentOf(_)
ContentOf(names) ==
  IF names = <<>> THEN <<>>
  ELSE PartOf(Head(names)).chars \o ContentOf(Tail(names))

InitExtract ==
  /\ IdleSync
  /\ parts \in UNION {[1..n -> PartNames] : n \in 0..MaxParts}
  /\ rawContent = ContentOf(parts)
  /\ extracted = Null
  /\ jsonStr = <<>>
  /\ fixed = Null
  /\ NoPrepare /\ NoQuestionSet /\ NoIds /\ NoScan /\ NoAuth

ParseQuestionsFromContent ==
  /\ extracted = Null
  /\ extracted' = parseQuestionsFromContent(rawContent)
  /\ UNCHANGED <<rawContent, parts, jsonStr, fixed, syncVars, serviceVars,
               pipelineVars>>

NextExtract == ParseQuestionsFromContent

SpecExtract == InitExtract /\ [][NextExtract]_vars

(***************************************************************************)
(* parseQuestionsFromContent applied to the texts of at most MaxLines      *)
(* lines in which no block of questions is found: numbered lines in the    *)
(* forms the three question patterns look for, other lines, and a block    *)
(* without questions.                                                      *)
(***************************************************************************)
MaxLines == 3

LineNames == {"dotted", "closed", "asked", "worded", "tight", "bracketed",
              "bracketed4", "bare", "plain", "blank", "space", "noQuestions"}

LineOf(name) ==
  CASE name = "dotted"      -> <<"1", ".", " ", "x">>
    [] name = "closed"      -> <<" ", "2", ")", " ", "y">>
    [] name = "asked"       -> <<"Q", "1", ":", " ", "x">>
    [] name = "worded"      -> <<"q", "uestion", " ", "2", ".", "y">>
    [] name = "tight"       -> <<"Q", ".", "7", ")", " ">>
    [] name = "bracketed"   -> <<"(", "3", ")", " ", "z">>
    [] name = "bracketed4"  -> <<"(", "4", ")", "\t", "(", "x", ")">>
    [] name = "bare"        -> <<"5", ".">>
    [] name = "plain"       -> <<"x", " ", "y">>
    [] name = "blank"       -> <<>>
    [] name = "space"       -> <<" ">>
    [] name = "noQuestions" -> BlockText(Compact, <<>>)

\* lines.join('\n')
RECURSIVE TextOf(_)
TextOf(names) ==
  IF names = <<>> THEN <<>>
  ELSE IF Len(names) = 1 THEN LineOf(names[1])
  ELSE LineOf(names[1]) \o <<Newline>> \o TextOf(Tail(names))

InitMarkdown ==
  /\ IdleSync
  /\ parts \in UNION {[1..n -> LineNames] : n \in 0..MaxLines}
  /\ rawContent = TextOf(parts)
  /\ extracted = Null
  /\ jsonStr = <<>>
  /\ fixed = Null
  /\ NoPrepare /\ NoQuestionSet /\ NoIds /\ NoScan /\ NoAuth

SpecMarkdown == InitMarkdown /\ [][NextExtract]_vars

(***************************************************************************)
(* The while (true) loop of parseQuestionsFromContent, one round at a      *)
(* time: cursor is searchStart (an index from 1), merged is allQuestions,  *)
(* closing the jsonStart and the jsonEnd of the last round (0 for -1).     *)
(* The texts are made of at most MaxBlocks of the parts above.             *)
(***************************************************************************)
MaxBlocks == 3

ScanParts == {"two", "indented", "escaped", "comma", "unclosed", "nullItem",
              "prose"}

InitScan ==
  /\ IdleSync
  /\ parts \in UNION {[1..n -> ScanParts] : n \in 0..MaxBlocks}
  /\ rawContent = ContentOf(parts)
  /\ extracted = Null
  /\ jsonStr = <<>>
  /\ fixed = Null
  /\ NoPrepare /\ NoQuestionSet /\ NoIds /\ NoAuth
  /\ cursor = 1
  /\ merged = <<>>
  /\ closing = <<>>

\* the questions a round pushes
Pushed(s, jsonStart, jsonEnd) ==
  IF jsonEnd = 0 THEN <<>>
  ELSE LET parsed == ParseBlock(SubSeq(s, jsonStart, jsonEnd - 1))
       IN  IF parsed.ok THEN QuestionsOf(parsed.val) ELSE <<>>

\* a round that finds a candidate start
ScanRound ==
  /\ extracted = Null
  /\ cursor > 0
  /\ JsonStart(rawContent, cursor) # 0
  /\ LET jsonStart == JsonStart(rawContent, cursor)
         jsonEnd   == MatchBrace(rawContent, jsonStart, 0, FALSE, FALSE)
     IN  /\ cursor' = NextSearchStart(rawContent, jsonStart, jsonEnd)
         /\ merged' = merged \o Pushed(rawContent, jsonStart, jsonEnd)
         /\ closing' = <<jsonStart, jsonEnd>>
  /\ UNCHANGED <<syncVars, serviceVars, extractVars, prepareVars, setVars,
                 idVars, authVars>>

\* "if (jsonStart === -1) break", and what follows the loop
ScanDone ==
  /\ extracted = Null
  /\ cursor > 0
  /\ JsonStart(rawContent, cursor) = 0
  /\ extracted' = Returned(rawContent, merged)
  /\ UNCHANGED <<rawContent, jsonStr, fixed, parts, syncVars, serviceVars,
                 prepareVars, setVars, idVars, scanVars, authVars>>

NextScan == ScanRound \/ ScanDone

\* the loop has not been left
ScanRunning == extracted = Null /\ cursor > 0

\* The function is synchronous: once called it runs to its end.  This is
\* WF_vars(NextScan) with ENABLED <<NextScan>>_vars written out: while the
\* loop is running one of the two actions can be taken, and each changes
\* cursor or extracted.
SpecScan ==
  /\ InitScan /\ [][NextScan]_vars
  /\ ([]<>(~ScanRunning) \/ []<><<NextScan>>_vars)

(***************************************************************************)
(* The search for the closing brace applied to every text of at most       *)
(* MaxScanLen characters that begins with the brace of a candidate start:  *)
(* braces, quotes, backslashes and another character.                      *)
(***************************************************************************)
MaxScanLen == 5

ScanChars == {"{", "}", Quote, Backslash, "x"}

InitBraces ==
  /\ IdleSync
  /\ rawContent \in {<<"{">> \o rest :
                       rest \in UNION {[1..n -> ScanChars] : n \in 0..(MaxScanLen - 1)}}
  /\ extracted = Null
  /\ jsonStr = <<>>
  /\ fixed = Null
  /\ parts = <<>>
  /\ NoPrepare /\ NoQuestionSet /\ NoIds /\ NoScan /\ NoAuth

\* the for loop from jsonStart on: closing is jsonStart and jsonEnd (0 for -1)
FindClosingBrace ==
  /\ closing = <<>>
  /\ closing' = <<1, MatchBrace(rawContent, 1, 0, FALSE, FALSE)>>
  /\ UNCHANGED <<cursor, merged, syncVars, serviceVars, extractVars,
                 prepareVars, setVars, idVars, authVars>>

NextBraces == FindClosingBrace

SpecBraces == InitBraces /\ [][NextBraces]_vars

(***************************************************************************)
(* lessonsService.prepare.  A question is a record of question_label, text *)
(* and choices, a solution one of question_label, answer_key,              *)
(* worked_solution and explanation; a field that is absent is Undefined.   *)
(***************************************************************************)
MaxQuestions == 2

MaxSolutions == 2

\* String(value)
StringOf(x) ==
  CASE x.t = "string" -> x.v
    [] x.t = "number" -> Decimal(x.v)
    [] x.t = "null" -> <<"null">>
    [] OTHER -> <<"undefined">>

\* Map.prototype.set: a map is the sequence of its entries
MapSet(map, key, value) ==
  IF \E i \in 1..Len(map) : map[i][1] = key
  THEN [i \in 1..Len(map) |-> IF map[i][1] = key THEN <<key, value>> ELSE map[i]]
  ELSE Append(map, <<key, value>>)

\* Map.prototype.get
MapGet(map, key) ==
  IF \E i \in 1..Len(map) : map[i][1] = key
  THEN map[CHOOSE i \in 1..Len(map) : map[i][1] = key][2]
  ELSE Undefined

\* solutions.forEach(...), from solution i on
RECURSIVE SolutionsMap(_, _, _)
SolutionsMap(solutions, i, map) ==
  IF i > Len(solutions) THEN map
  ELSE SolutionsMap(solutions, i + 1,
         IF JsTruthy(solutions[i].question_label)
         THEN MapSet(map, StringOf(solutions[i].question_label), solutions[i])
         ELSE map)

\* mutant: an empty field of the solution is copied too
Merged_Always(found, value) == IF found THEN value ELSE Undefined

\* "if (matchingSolution) { if (matchingSolution.field) item.field = ... }"
Merged(found, value) == IF found /\ JsTruthy(value) THEN value ELSE Undefined

\* "String(question.question_label || '')"
QuestionKey(question) ==
  StringOf(IF JsTruthy(question.question_label) THEN question.question_label
           ELSE JString(<<>>))

\* the callback of questions.map
MergedItem(question, solutionsMap) ==
  LET matchingSolution == MapGet(solutionsMap, QuestionKey(question))
      found == matchingSolution # Undefined
  IN  [question_label  |-> question.question_label,
       text            |-> question.text,
       choices         |-> IF JsTruthy(question.choices) THEN question.choices
                           ELSE JArray(<<>>),
       has_solution    |-> found,
       answer_key      |-> Merged(found, matchingSolution.answer_key),
       worked_solution |-> Merged(found, matchingSolution.worked_solution),
       explanation     |-> Merged(found, matchingSolution.explanation)]

\* mutant: the questions without a solution are left out
MergedItems_MatchedOnly(questions, solutions) ==
  SelectSeq([i \in 1..Len(questions) |->
               MergedItem(questions[i], SolutionsMap(solutions, 1, <<>>))],
            LAMBDA item : item.has_solution)

MergedItems(questions, solutions) ==
  [i \in 1..Len(questions) |->
     MergedItem(questions[i], SolutionsMap(solutions, 1, <<>>))]

\* what prepare returns for two sets of one book and chapter
Prepared(questions, solutions) ==
  LET mergedItems  == MergedItems(questions, solutions)
      matchedCount == Cardinality({i \in 1..Len(mergedItems) :
                                     mergedItems[i].has_solution})
  IN  [error   |-> "",
       items   |-> mergedItems,
       summary |-> [total_questions |-> Len(questions),
                    total_solutions |-> Len(solutions),
                    matched         |-> matchedCount,
                    unmatched       |-> Len(mergedItems) - matchedCount]]

PrepareThrew(message) == [error |-> message, items |-> <<>>, summary |-> Null]

QuestionRow(label, text, choices) ==
  [question_label |-> label, text |-> text, choices |-> choices]

SolutionRow(label, answer_key, worked_solution, explanation) ==
  [question_label |-> label, answer_key |-> answer_key,
   worked_solution |-> worked_solution, explanation |-> explanation]

Text(c) == JString(<<c>>)

QuestionPool ==
  {QuestionRow(Text("1"), Text("a"), JArray(<<Text("x")>>)),
   QuestionRow(JNumber(1), Text("b"), JArray(<<>>)),
   QuestionRow(Text("2"), Text("c"), Undefined),
   QuestionRow(JNumber(0), Text("d"), JArray(<<>>)),
   QuestionRow(Undefined, Text("e"), JArray(<<>>)),
   QuestionRow(Text("1"), Text("f"), JArray(<<>>)),
   QuestionRow(Text("0"), Text("g"), JArray(<<>>))}

SolutionPool ==
  {SolutionRow(Text("1"), Text("A"), Text("w"), Text("e")),
   SolutionRow(JNumber(1), Text("B"), Undefined, Undefined),
   SolutionRow(Text("1"), JString(<<>>), Undefined, Text("f")),
   SolutionRow(Text("2"), Text("A"), JString(<<>>), Null),
   SolutionRow(JNumber(0), Text("A"), Undefined, Undefined),
   SolutionRow(JString(<<>>), Text("B"), Undefined, Undefined),
   SolutionRow(Undefined, Text("A"), Undefined, Undefined),
   SolutionRow(Text("0"), Text("B"), Undefined, Undefined)}

InitPrepare ==
  /\ IdleSync
  /\ rawContent = <<>> /\ extracted = Null /\ jsonStr = <<>> /\ fixed = Null
  /\ parts = <<>>
  /\ questionItems \in UNION {[1..n -> QuestionPool] : n \in 0..MaxQuestions}
  /\ solutionItems \in UNION {[1..n -> SolutionPool] : n \in 0..MaxSolutions}
  /\ prepared = Null
  /\ NoQuestionSet /\ NoIds /\ NoScan /\ NoAuth

\* prepare({question_set_id, solution_set_id}): either set may be missing,
\* and the two may belong to different books or chapters
Prepare ==
  /\ prepared = Null
  /\ \E fetched \in {"both", "noQuestionSet", "noSolutionSet", "otherBook",
                     "otherChapter"} :
       prepared' =
         CASE fetched = "noQuestionSet" -> PrepareThrew("Question set not found")
           [] fetched = "noSolutionSet" -> PrepareThrew("Solution set not found")
           [] fetched = "otherBook" ->
                PrepareThrew("Question set and solution set must belong to the same book")
           [] fetched = "otherChapter" ->
                PrepareThrew("Question set and solution set must belong to the same chapter")
           [] OTHER -> Prepared(questionItems, solutionItems)
  /\ UNCHANGED <<questionItems, solutionItems, syncVars, serviceVars,
                 extractVars, setVars, idVars, scanVars, authVars>>

NextPrepare == Prepare

SpecPrepare == InitPrepare /\ [][NextPrepare]_vars

(***************************************************************************)
(* POST /extract of routes/questionSets.js: createQuestionSet, and then    *)
(* extractQuestions on the set created, one await at a time.  A call of    *)
(* the database or of a provider may fail.                                 *)
(***************************************************************************)
\* the defaults of pollForCompletion(jobId, maxAttempts = 120, intervalMs = 2000)
maxAttempts == 120

intervalMs == 2000

EXTRACTION_PROVIDERS == {"llamaparse", "gemini"}

NoJob ==
  [pc |-> "route", provider |-> "llamaparse", attempt |-> 0, elapsed |-> 0,
   requests |-> <<>>, polled |-> "no", error |-> ""]

InitExtraction ==
  /\ IdleSync
  /\ rawContent = <<>> /\ extracted = Null /\ jsonStr = <<>> /\ fixed = Null
  /\ parts = <<>>
  /\ questionSet = Null
  /\ job \in {[NoJob EXCEPT !.provider = p] : p \in EXTRACTION_PROVIDERS}
  /\ NoPrepare /\ NoIds /\ NoScan /\ NoAuth

ExtractionUnchanged ==
  UNCHANGED <<syncVars, serviceVars, extractVars, prepareVars, idVars, scanVars,
              authVars>>

\* the error thrown in extractQuestions is caught at its end
Caught(message) == [job EXCEPT !.pc = "catch", !.error = message]

\* createQuestionSet: the insert of the row, unless the items cannot be
\* fetched, are none, are not converted, or the insert fails
CreateQuestionSet ==
  /\ job.pc = "route"
  /\ \/ /\ questionSet' = [status |-> "pending", error_message |-> ""]
        /\ job' = [job EXCEPT !.pc = "updateStatus"]
     \/ /\ \E message \in {"fetchError", "No scanned items found for the provided IDs",
                           "item(s) do not have completed LaTeX conversion",
                           "insert error"} :
             job' = [job EXCEPT !.pc = "rejected", !.error = message]
        /\ UNCHANGED questionSet
  /\ ExtractionUnchanged

\* updateStatus(questionSetId, status, errorMessage): an error of the update
\* is logged and nothing else
updateStatus(status, errorMessage) ==
  \/ questionSet' = [questionSet EXCEPT
                       !.status = status,
                       !.error_message =
                          IF errorMessage # "" THEN errorMessage ELSE @]
  \/ UNCHANGED questionSet

\* "await this.updateStatus(questionSetId, 'processing')"
MarkProcessing ==
  /\ job.pc = "updateStatus"
  /\ updateStatus("processing", "")
  /\ job' = [job EXCEPT !.pc = "findById"]
  /\ ExtractionUnchanged

\* findById and combineLatexContent
CombineContent ==
  /\ job.pc = "findById"
  /\ \/ job' = [job EXCEPT !.pc = "submit"]
     \/ \E message \in {"Question set not found", "findById error",
                        "combineLatexContent error"} : job' = Caught(message)
  /\ UNCHANGED questionSet
  /\ ExtractionUnchanged

\* extractWithGemini, or submitToLlamaParse and the update of llamaparse_job_id
Submit ==
  /\ job.pc = "submit"
  /\ \/ /\ job.provider = "gemini"
        /\ \/ job' = [job EXCEPT !.pc = "parse"]
           \/ job' = Caught("Gemini error")
     \/ /\ job.provider # "gemini"
        /\ \/ job' = [job EXCEPT !.pc = "poll"]
           \/ job' = Caught("LlamaParse upload failed")
  /\ UNCHANGED questionSet
  /\ ExtractionUnchanged

\* mutant: "attempt <= maxAttempts"
PollAgain_OnceMore(attempt) == attempt <= maxAttempts

\* the condition of the for loop of pollForCompletion
PollAgain(attempt) == attempt < maxAttempts

\* one round of the loop: the status request, its response, and the wait
Poll ==
  /\ job.pc = "poll"
  /\ PollAgain(job.attempt)
  /\ \E response \in {"failed", "SUCCESS", "ERROR", "PENDING"} :
       LET asked == [job EXCEPT
                       !.requests = Append(@, [at |-> job.elapsed,
                                               status |-> response])]
       IN  job' =
             CASE response = "failed" ->
                    [asked EXCEPT !.pc = "catch", !.polled = "threw",
                                  !.error = "Failed to check job status"]
               [] response = "SUCCESS" -> [asked EXCEPT !.pc = "getResult"]
               [] response = "ERROR" ->
                    [asked EXCEPT !.pc = "catch", !.polled = "threw",
                                  !.error = "LlamaParse processing failed"]
               [] OTHER ->
                    [asked EXCEPT !.attempt = @ + 1,
                                  !.elapsed = @ + intervalMs]
  /\ UNCHANGED questionSet
  /\ ExtractionUnchanged

\* the loop is left: "throw new Error('LlamaParse extraction timed out')"
PollTimedOut ==
  /\ job.pc = "poll"
  /\ ~PollAgain(job.attempt)
  /\ job' = [job EXCEPT !.pc = "catch", !.polled = "threw",
                        !.error = "LlamaParse extraction timed out"]
  /\ UNCHANGED questionSet
  /\ ExtractionUnchanged

\* "return await this.getResult(jobId)"
GetResult ==
  /\ job.pc = "getResult"
  /\ \/ job' = [job EXCEPT !.pc = "parse", !.polled = "returned"]
     \/ job' = [job EXCEPT !.pc = "catch", !.polled = "threw",
                           !.error = "Failed to get result"]
  /\ UNCHANGED questionSet
  /\ ExtractionUnchanged

\* parseQuestionsFromContent and the update that stores the questions
SaveQuestions ==
  /\ job.pc = "parse"
  /\ \/ /\ questionSet' = [questionSet EXCEPT !.status = "completed",
                                              !.error_message = ""]
        /\ job' = [job EXCEPT !.pc = "returned"]
     \/ /\ UNCHANGED questionSet
        /\ job' = Caught("update error")
  /\ ExtractionUnchanged

\* the catch of extractQuestions
ExtractionFailed ==
  /\ job.pc = "catch"
  /\ updateStatus("failed", job.error)
  /\ job' = [job EXCEPT !.pc = "threw"]
  /\ ExtractionUnchanged

NextExtraction ==
  \/ CreateQuestionSet
  \/ MarkProcessing
  \/ CombineContent
  \/ Submit
  \/ Poll
  \/ PollTimedOut
  \/ GetResult
  \/ SaveQuestions
  \/ ExtractionFailed

SpecExtraction == InitExtraction /\ [][NextExtraction]_vars

\* every request of extractQuestions returns or fails: the call goes on
SpecExtractionRun == SpecExtraction /\ WF_vars(NextExtraction)

(***************************************************************************)
(* utils/mongoId.js: generateMongoId.  An id is kept as its three          *)
(* components, each the hexadecimal string the code builds.  The counter   *)
(* of the module starts at a random value below 0xffffff; the model draws  *)
(* it within MaxStart of either end of that range.  The timestamp and the  *)
(* random bytes are drawn from two values each.                            *)
(***************************************************************************)
MaxIds == 4
MaxStart == 8

counterModulus == 16777215

HexChars ==
  <<"0", "1", "2", "3", "4", "5", "6", "7", "8", "9", "a", "b", "c", "d",
    "e", "f">>

\* n.toString(16), for an integer n >= 0
RECURSIVE ToHex(_)
ToHex(n) ==
  IF n < 16 THEN <<HexChars[n + 1]>>
  ELSE Append(ToHex(n \div 16), HexChars[(n % 16) + 1])

\* s.padStart(targetLength, '0')
PadStart(s, targetLength) ==
  [i \in 1..(targetLength - Len(s)) |-> "0"] \o s

\* parseInt(s, 16)
RECURSIVE ParseHex(_)
ParseHex(s) ==
  IF Len(s) = 0 THEN 0
  ELSE 16 * ParseHex(SubSeq(s, 1, Len(s) - 1))
         + ((CHOOSE d \in 1..16 : HexChars[d] = s[Len(s)]) - 1)

\* counter = (counter + 1) % 0xffffff
NextCounter(c) == (c + 1) % counterModulus

\* Math.floor(Math.random() * 0xffffff), near either end of its range
CounterStarts ==
  (0..(MaxStart - 1)) \cup ((counterModulus - MaxStart)..(counterModulus - 1))

\* Math.floor(Date.now() / 1000) and the five random bytes
Timestamps == {1793491200, 1793491201}
RandomBytes == {<<0, 0, 0, 0, 0>>, <<7, 255, 16, 160, 9>>}

\* the strings of a sequence, joined
RECURSIVE Join(_)
Join(strings) ==
  IF Len(strings) = 0 THEN <<>> ELSE Head(strings) \o Join(Tail(strings))

InitMongoId ==
  /\ IdleSync
  /\ rawContent = <<>> /\ extracted = Null /\ jsonStr = <<>> /\ fixed = Null
  /\ parts = <<>>
  /\ NoPrepare /\ NoQuestionSet /\ NoScan /\ NoAuth
  /\ counter \in CounterStarts
  /\ ids = <<>>

GenerateMongoId ==
  /\ Len(ids) < MaxIds
  /\ \E now \in Timestamps, bytes \in RandomBytes :
       LET timestamp == PadStart(ToHex(now), 8)
           random == Join([i \in 1..5 |-> PadStart(ToHex(bytes[i]), 2)])
           count == PadStart(ToHex(NextCounter(counter)), 6)
       IN  /\ counter' = NextCounter(counter)
           /\ ids' = Append(ids, [timestamp |-> timestamp, random |-> random,
                                  count |-> count])
  /\ UNCHANGED <<syncVars, serviceVars, extractVars, prepareVars, setVars,
                 scanVars, authVars>>

NextMongoId == GenerateMongoId

SpecMongoId == InitMongoId /\ [][NextMongoId]_vars

(***************************************************************************)
(* stores/authStore.js and components/AuthInitializer.jsx.  The store is   *)
(* created with the token and the user that localStorage holds: none, or   *)
(* those of an earlier session, whose token the backend may have let       *)
(* expire.  Every await of the store is a point where the other calls run. *)
(***************************************************************************)
MaxLogins == 1

\* "const maxRetries = 3"
maxRetries == 3

\* the token of the earlier session and the token a login() is given
StoredToken == "t0"

IssuedToken == "t1"

UserOf(token) == IF token = StoredToken THEN "u0" ELSE "u1"

\* what GET /auth/me may answer to a request with the token sent: the
\* statusCode of the ApiError, 0 for the null of a failed fetch
StatusCodes(bearer, expired) ==
  IF bearer = StoredToken /\ expired THEN {401, 403, 500, 0} ELSE {200, 500, 0}

InitAuth ==
  /\ IdleSync
  /\ rawContent = <<>> /\ extracted = Null /\ jsonStr = <<>> /\ fixed = Null
  /\ parts = <<>>
  /\ NoPrepare /\ NoQuestionSet /\ NoIds /\ NoScan
  /\ \E token \in {"null", StoredToken}, expired \in BOOLEAN :
       /\ authStore = [InitialAuthState EXCEPT !.token = token,
                                              !.user = IF token = "null" THEN "null"
                                                       ELSE UserOf(token)]
       /\ authCalls = [NoAuthCalls EXCEPT !.expired = expired]

\* initialize(retryCount) up to its await: the store and the calls after it
initialize(store, calls, retryCount) ==
  IF store.isInitializing THEN <<store, calls>>
  ELSE IF store.isInitialized /\ retryCount = 0 THEN <<store, calls>>
  ELSE IF store.token = "null"
  THEN <<[store EXCEPT !.isInitialized = TRUE, !.isInitializing = FALSE], calls>>
  ELSE <<[store EXCEPT !.isInitializing = TRUE],
         [calls EXCEPT !.me = [pending |-> TRUE, sent |-> store.token,
                               retryCount |-> retryCount]]>>

\* the effect of AuthInitializer runs
Mount ==
  /\ ~authCalls.hasInitialized
  /\ LET after == initialize(authStore, [authCalls EXCEPT !.hasInitialized = TRUE], 0)
     IN  authStore' = after[1] /\ authCalls' = after[2]
  /\ UNCHANGED <<syncVars, serviceVars, extractVars, prepareVars, setVars,
                 idVars, scanVars>>

\* the set() of the isAuthError branch
Cleared(store, bearer) ==
  [store EXCEPT !.user = "null", !.token = "null", !.isInitialized = TRUE,
                !.isInitializing = FALSE, !.initializationAttempts = 0]

\* api.get('/auth/me') settles: the try block goes on, or the catch block
\* runs
MeSettles ==
  /\ authCalls.me.pending
  /\ \E statusCode \in StatusCodes(authCalls.me.sent, authCalls.expired) :
       LET retryCount == authCalls.me.retryCount
           settled == [authCalls EXCEPT
                         !.me = NoRequest,
                         !.last = [statusCode |-> statusCode,
                                   sent |-> authCalls.me.sent]]
       IN  IF statusCode = 200
           THEN /\ authStore' = [authStore EXCEPT
                                   !.user = UserOf(authCalls.me.sent),
                                   !.isInitialized = TRUE,
                                   !.isInitializing = FALSE,
                                   !.initializationAttempts = 0]
                /\ authCalls' = settled
           ELSE IF statusCode \in {401, 403}
           THEN /\ authStore' = Cleared(authStore, authCalls.me.sent)
                /\ authCalls' = settled
           ELSE IF retryCount < maxRetries
           THEN /\ authStore' = [authStore EXCEPT
                                   !.initializationAttempts = retryCount + 1,
                                   !.isInitializing = FALSE]
                /\ authCalls' = [settled EXCEPT !.timer = retryCount + 1]
           ELSE /\ authStore' = [authStore EXCEPT
                                   !.isInitialized = TRUE,
                                   !.isInitializing = FALSE,
                                   !.initializationAttempts = 0]
                /\ authCalls' = settled
  /\ UNCHANGED <<syncVars, serviceVars, extractVars, prepareVars, setVars,
                 idVars, scanVars>>

\* the timer of a retry fires
Retry ==
  /\ authCalls.timer # NoTimer
  /\ LET after == initialize(authStore, [authCalls EXCEPT !.timer = NoTimer],
                             authCalls.timer)
     IN  authStore' = after[1] /\ authCalls' = after[2]
  /\ UNCHANGED <<syncVars, serviceVars, extractVars, prepareVars, setVars,
                 idVars, scanVars>>

\* login() is called and awaits api.post('/auth/login')
Login ==
  /\ ~authCalls.login
  /\ authCalls.logins < MaxLogins
  /\ authCalls' = [authCalls EXCEPT !.login = TRUE, !.logins = @ + 1]
  /\ UNCHANGED <<authStore, syncVars, serviceVars, extractVars, prepareVars,
                 setVars, idVars, scanVars>>

\* the request of login() settles: the token and the user of the response
\* are stored, or login() throws
LoginSettles ==
  /\ authCalls.login
  /\ authCalls' = [authCalls EXCEPT !.login = FALSE]
  /\ \E ok \in BOOLEAN :
       authStore' = IF ok
                    THEN [authStore EXCEPT !.user = UserOf(IssuedToken),
                                           !.token = IssuedToken,
                                           !.isInitialized = TRUE]
                    ELSE authStore
  /\ UNCHANGED <<syncVars, serviceVars, extractVars, prepareVars, setVars,
                 idVars, scanVars>>

Logout ==
  /\ authStore.token # "null"
  /\ authStore' = [authStore EXCEPT !.user = "null", !.token = "null",
                                    !.isInitialized = TRUE]
  /\ UNCHANGED <<authCalls, syncVars, serviceVars, extractVars, prepareVars,
                 setVars, idVars, scanVars>>

NextAuth ==
  \/ Mount
  \/ MeSettles
  \/ Retry
  \/ Login
  \/ LoginSettles
  \/ Logout

SpecAuth == InitAuth /\ [][NextAuth]_vars

(***************************************************************************)
(* Properties.                                                             *)
(***************************************************************************)

\* two runs in succession, neither of which lost a connection to the target
CleanPair(n) == n \in 2..Len(runs) /\ runs[n - 1].clean /\ runs[n].clean

\* C1: the second of two sync() runs in succession over an unchanged source
\* reports inserted = 0 and updated = 0
C1_SecondRunWritesNothing ==
  \A n \in 2..Len(runs) :
    CleanPair(n) => runs[n].stats.inserted = 0 /\ runs[n].stats.updated = 0

\* C2: a collection never holds two documents with the same _id, and a run
\* that follows a run over the same source leaves the same set of _ids
C2_NoDuplicateDocuments ==
  /\ \A c \in DOMAIN mongo : \A x, y \in mongo[c] : x._id = y._id => x = y
  /\ \A n \in 2..Len(runs) : CleanPair(n) => runs[n].ids = runs[n - 1].ids

C2_Witness ==
  /\ CleanPair(2)
  /\ runs[2].stats.total > 1
  /\ runs[2].ids # {}
  /\ runs[2].stats.errors = 0

\* the document row i of the fetched data is transformed to
DocOf(i) == transformItem(entity, data[i], context)

Produces(i) ==
  i \in 1..Len(data) /\ data[i].ref_id.t = "str" /\ data[i].ref_id.v.n > 0
    /\ DocOf(i).status = "doc"

\* the documents of the rows of the run that have one
Documents == [i \in {k \in 1..Len(data) : Produces(k)} |-> DocOf(i).doc]

\* rows i and j map to the same (order, chapter, type) under different _ids
ConflictingIn(ds, i, j) ==
  /\ i \in DOMAIN ds /\ j \in DOMAIN ds
  /\ Key(ds[i]) = Key(ds[j])
  /\ ds[i]._id # ds[j]._id

WithKey(docs, k) == {x \in docs : Key(x) = k}

RowsOf(q) == {q[k] : k \in 1..Len(q)}

C3_WitnessSameBatch ==
  /\ pc = "done" /\ entity = "lesson" /\ faults = 0
  /\ LET ds == Documents
     IN  \E i, j \in 1..Len(data) :
           /\ ConflictingIn(ds, i, j)
           /\ \E n \in 1..Len(sent) : {i, j} \subseteq RowsOf(sent[n])
           /\ Cardinality(WithKey(mongo.exercise, Key(ds[i]))) = 1

NoRefId(item) == item.ref_id \in {Null, Undefined, Str(EmptyString)}

\* the loop is about to process the row data[idx]
AtRow == pc = "loop" /\ idx <= Len(data)

Sent == UNION {RowsOf(sent[n]) : n \in 1..Len(sent)}

\* C4: a row whose ref_id is null, undefined or empty is not passed to
\* transformItem, enters no batch, and adds one to skipped and nothing to errors
C4_NoRefIdIsSkipped ==
  /\ [](\A i \in 1..Len(data) :
          NoRefId(data[i]) =>
            i \notin transformed /\ i \notin RowsOf(batchRows) /\ i \notin Sent)
  /\ [][(AtRow /\ NoRefId(data[idx])) =>
          /\ stats' = [stats EXCEPT !.skipped = @ + 1]
          /\ transformed' = transformed
          /\ batch' = batch
          /\ sent' = sent
          /\ mongo' = mongo]_vars

C4_Witness ==
  \E i \in 1..Len(outcome) :
    NoRefId(data[i]) /\ outcome[i] = "skipped" /\ stats.skipped > 0

Throws(i) ==
  i \in 1..Len(data) /\ ~NoRefId(data[i]) /\ DocOf(i).status = "throw"

\* C5: when transformItem throws for a row, errors grows by one, the row is
\* not sent, the batch is kept and the loop goes on; at the end of the run
\* every row has been processed and every document that entered a batch has
\* been passed to batchUpsert
C5_TransformErrorIsContained ==
  /\ [][(AtRow /\ Throws(idx)) =>
          /\ stats' = [stats EXCEPT !.errors = @ + 1]
          /\ batch' = batch
          /\ sent' = sent
          /\ mongo' = mongo
          /\ pc' = "loop"
          /\ idx' = idx + 1]_vars
  /\ [](\A i \in RowsOf(batchRows) \cup Sent : ~Throws(i))
  /\ []((pc = "done" /\ Len(data) > 0) =>
          /\ \A i \in 1..Len(data) : outcome[i] # "pending"
          /\ Sent = {i \in 1..Len(data) : outcome[i] = "batched"})

\* a row threw between two rows of one batch, and the batch was sent
C5_Witness ==
  /\ pc = "done"
  /\ \E n \in 1..Len(sent) : \E i, k \in RowsOf(sent[n]) :
       \E j \in 1..Len(data) : i < j /\ j < k /\ outcome[j] = "error" /\ Throws(j)

\* the step is a call of batchUpsert
Flushes == sent' # sent

\* C6: when the upsert bulkWrite of a batch fails, errors grows by the size of
\* the batch, inserted and updated stay, and the run goes on
C6_FailedBatchCountsAsErrors ==
  [][(Flushes /\ lastFlush'.upsert.threw) =>
       /\ stats'.errors = stats.errors + Len(lastFlush'.documents)
       /\ stats'.inserted = stats.inserted
       /\ stats'.updated = stats.updated
       /\ pc' \in {"loop", "done"}
       /\ (pc' = "loop" => idx' = idx + 1 /\ batch' = <<>>)]_vars

\* the first batch failed, the second was written
C6_Witness ==
  /\ pc = "done"
  /\ lastFlush.n = 2 /\ ~lastFlush.upsert.threw
  /\ stats.errors >= BATCH_SIZE
  /\ stats.inserted + stats.updated > 0
  /\ \A i \in 1..Len(data) : outcome[i] # "error"

ReturnsFalsy(i) ==
  i \in 1..Len(data) /\ ~NoRefId(data[i]) /\ DocOf(i).status = "null"

\* C7: a row for which transformItem returns a falsy value adds one to
\* skipped, nothing to errors, and enters no batch
C7_FalsyTransformIsSkipped ==
  /\ [][(AtRow /\ ReturnsFalsy(idx)) =>
          /\ stats' = [stats EXCEPT !.skipped = @ + 1]
          /\ batch' = batch
          /\ sent' = sent
          /\ mongo' = mongo]_vars
  /\ [](\A i \in RowsOf(batchRows) \cup Sent : ~ReturnsFalsy(i))

C7_Witness ==
  \E i \in 1..Len(outcome) :
    ReturnsFalsy(i) /\ outcome[i] = "skipped" /\ i \in transformed

\* the parent a row refers to has no entry in the reference map
ParentUnresolved(i) ==
  IF entity = "lesson"
  THEN \/ data[i].book_id \notin DOMAIN context.bookRefIds
       \/ data[i].chapter_id \notin DOMAIN context.chapterRefIds
  ELSE data[i].lesson_id \notin DOMAIN context.lessonRefIds

\* C8: for both syncers, a row whose parent reference is not in the reference
\* map is skipped: it is counted under skipped and no document is sent for it
C8_UnresolvedParentIsSkipped ==
  \A i \in 1..Len(outcome) :
    (outcome[i] # "pending" /\ ~NoRefId(data[i]) /\ ParentUnresolved(i)) =>
      outcome[i] = "skipped" /\ i \notin RowsOf(batchRows) \cup Sent

\* the target collection as the delete operation of documents[k] alone
\* leaves it
AfterDeleteOf(docs, documents, k) ==
  DeleteMany(EmptyResult(docs), LessonDeleteOps(documents)[k]).docs

\* C9: in a batchUpsert of the lesson syncer the delete operation built for a
\* document D removes the documents with D's (order, chapter, type) and
\* another _id, and no other: documents with another key stay as they are,
\* and so does the document whose _id is D's
C9_DeleteRemovesOnlyConflicts ==
  (entity = "lesson" /\ lastFlush.n > 0) =>
    LET f == lastFlush
    IN  /\ \A k \in 1..Len(f.documents) : \A x \in f.before :
             x \notin AfterDeleteOf(f.before, f.documents, k)
               <=> (Key(x) = Key(f.documents[k]) /\ x._id # f.documents[k]._id)
        /\ \A k \in 1..Len(f.documents) :
             AfterDeleteOf(f.before, f.documents, k) \subseteq f.before
        /\ f.afterDelete \subseteq f.before
        /\ \A x \in f.before \ f.afterDelete :
             \E k \in 1..Len(f.documents) :
               Key(x) = Key(f.documents[k]) /\ x._id # f.documents[k]._id

\* the delete of a batch removed the document that conflicts with one
\* document of the batch, while a document that differs from it in type only
\* and the document another document of the batch will update were in the
\* collection and stayed
C9_Witness ==
  /\ entity = "lesson" /\ lastFlush.n > 0
  /\ \E k, m \in 1..Len(lastFlush.documents) :
       LET D == lastFlush.documents[k]
       IN  /\ \E x \in lastFlush.before \ lastFlush.afterDelete : Key(x) = Key(D)
           /\ \E x \in lastFlush.afterDelete :
                x.order = D.order /\ x.chapter = D.chapter /\ x.type # D.type
           /\ \E x \in lastFlush.before \cap lastFlush.afterDelete :
                x._id = lastFlush.documents[m]._id

\* C10: when the delete bulkWrite of a batch fails, the upsert of the batch
\* is applied to what the delete left, and stats changes as the upsert step
\* (the bulkWrite and the count that verifies it) alone decides
C10_DeleteIsBestEffort ==
  [][(Flushes /\ lastFlush'.deleteThrew) =>
       LET f == lastFlush'
           n == Len(f.documents)
           written == [stats EXCEPT
                         !.inserted = @ + f.upsert.result.upsertedCount,
                         !.updated = @ + f.upsert.result.modifiedCount,
                         !.matched = @ + f.upsert.result.matchedCount]
       IN  /\ mongo'[mongoCollection(entity)] = f.upsert.result.docs
           /\ stats' =
                IF f.upsert.threw THEN [stats EXCEPT !.errors = @ + n]
                ELSE IF f.countThrew THEN [written EXCEPT !.errors = @ + n]
                ELSE written]_vars

\* the delete failed and the upsert of the same batch inserted its documents
C10_Witness ==
  /\ lastFlush.deleteThrew
  /\ ~lastFlush.upsert.threw
  /\ lastFlush.upsert.result.upsertedCount > 0
  /\ stats.inserted > 0
  /\ stats.errors = 0

\* C11: in syncAll() the lesson items are transformed and written only after
\* the sync() of the lessons has returned its stats, and the exercises are
\* written only before that; when the sync() of the lessons throws, no sync()
\* of the lesson items is entered and syncAll() throws
C11_LessonsBeforeLessonItems ==
  /\ [](entity = "lessonItem" =>
          call.lessons.t = "stats" /\ Len(runs) >= 1 /\ call.pc # "lessons")
  /\ [][mongo'.exercise_item # mongo.exercise_item =>
          /\ entity = "lessonItem"
          /\ call.pc = "lessonItems"
          /\ call.lessons.t = "stats"]_vars
  /\ [][mongo'.exercise # mongo.exercise => call.pc = "lessons"]_vars
  /\ [][(call.pc = "lessons" /\ pc = "failed") =>
          /\ entity' = "lesson"
          /\ pc' = "failed"
          /\ call'.error
          /\ call'.pc \in {"disconnecting", "thrown"}]_vars
  /\ []((call.error /\ call.lessons = Null) =>
          /\ entity = "lesson"
          /\ call.lessonItems = Null
          /\ call.pc \in {"disconnecting", "thrown"})
  /\ [](call.pc = "returned" =>
          call.success /\ call.lessons.t = "stats" /\ call.lessonItems.t = "stats")

\* syncAll() returned after it wrote exercises and then exercise items
C11_Witness ==
  /\ call.op = "syncAll" /\ call.pc = "returned"
  /\ call.lessons.v.inserted > 0
  /\ call.lessonItems.v.inserted > 0
  /\ entity = "lessonItem"

\* the sync() of the lessons threw on its second page, and syncAll() threw
C11_WitnessThrown ==
  /\ call.op = "syncAll" /\ call.pc = "thrown"
  /\ call.lessons = Null
  /\ entity = "lesson" /\ pc = "failed" /\ page > 0

RECURSIVE Flatten(_)
Flatten(q) == IF q = <<>> THEN <<>> ELSE Head(q) \o Flatten(Tail(q))

Ascending(q) == \A i, j \in 1..Len(q) : i < j => q[i] < q[j]

\* the rows handed to batchUpsert so far, and those waiting in the batch
Handed == Flatten(sent) \o (IF pc = "loop" THEN batchRows ELSE <<>>)

\* C12: the documents of a run go to batchUpsert in fetch order, each in one
\* call; a batch is sent as soon as it holds BATCH_SIZE documents and the
\* rest at the end, so that every call but the last gets BATCH_SIZE documents
\* and the last at most BATCH_SIZE; a step makes at most one call
C12_BatchesInFetchOrder ==
  /\ [](pc \in {"loop", "done"} =>
          /\ Ascending(Handed)
          /\ RowsOf(Handed) = {i \in 1..Len(outcome) : outcome[i] = "batched"}
          /\ \A n \in 1..Len(sent) :
               /\ Len(sent[n]) \in 1..BATCH_SIZE
               /\ (n < Len(sent) \/ pc = "loop") => Len(sent[n]) = BATCH_SIZE
          /\ (pc = "loop" => Len(batchRows) < BATCH_SIZE)
          /\ (pc = "done" => Len(Handed) = Len(Flatten(sent))))
  /\ [](lastFlush.n = Len(sent))
  /\ [][Len(sent') > Len(sent) =>
          /\ sent' = Append(sent, lastFlush'.rows)
          /\ lastFlush'.documents =
               [k \in 1..Len(lastFlush'.rows) |-> DocOf(lastFlush'.rows[k]).doc]
          /\ lastFlush'.before = mongo[mongoCollection(entity)]]_vars

\* a run sent a full batch from the loop and the rest at the end
C12_Witness ==
  /\ pc = "done"
  /\ Len(sent) = 2
  /\ Len(sent[1]) = BATCH_SIZE
  /\ Len(sent[2]) < BATCH_SIZE
  /\ Flatten(sent) = [i \in 1..Len(data) |-> i]

\* C13: when the fetch of a page fails, sync() throws and returns no stats,
\* and the run has written nothing: no batchUpsert is called before the last
\* page has been fetched
C13_FetchFailureWritesNothing ==
  /\ [][(pc = "fetch" /\ faults' # faults) =>
          pc' = "failed" /\ runs' = runs /\ mongo' = mongo]_vars
  /\ [][(pc \in {"presync", "fetch", "failed"}) =>
          mongo' = mongo /\ (pc = "failed" => runs' = runs)]_vars
  /\ [](pc \in {"presync", "fetch", "failed"} =>
          sent = <<>> /\ lastFlush.n = 0 /\ batch = <<>>)

\* the fetch of the second page failed in a run that follows a run that wrote
C13_Witness ==
  /\ pc = "failed"
  /\ page = 1
  /\ Len(data) = PAGE_SIZE
  /\ Len(runs) = 1
  /\ runs[1].stats.inserted > 0
  /\ runNo = 2

\* no call to a store has failed and no call of the service has thrown
NoFailure == faults = 0 /\ ~call.error /\ ~other.error

\* C14: two calls of the service share no mutable state: while one call
\* awaits its sync(), no step of the other call changes the connection the
\* sync() writes through, and every batchUpsert of the sync() finds the
\* connection its call opened (as long as nothing has failed)
C14_RunsShareNoState ==
  /\ [][(other' # other /\ call.pc \in Running /\ NoFailure /\ NoFailure') =>
          connection' = connection]_vars
  /\ [][(Len(sent') > Len(sent) /\ call.pc \in Running /\ NoFailure) =>
          connection = "connected"]_vars

\* where the character at index k of a text stands: outside the string
\* literals (the quote that opens a literal included), in a literal (the
\* quote that ends it included), or right after the backslash of an escape
RECURSIVE ModeAt(_, _)
ModeAt(s, k) ==
  IF k = 1 THEN "out"
  ELSE LET m == ModeAt(s, k - 1)
           c == s[k - 1]
       IN  CASE m = "out" -> IF c = Quote THEN "in" ELSE "out"
             [] m = "in" -> IF c = Backslash THEN "escaped"
                            ELSE IF c = Quote THEN "out" ELSE "in"
             [] m = "escaped" -> "in"

\* the escape letters the claim lists
ListedEscapes == {Quote, Backslash, "/", "b", "f", "n", "r", "t", "u"}

\* what the reference transformation writes for the character at index k
Emitted(s, k) ==
  IF /\ ModeAt(s, k) = "in"
     /\ s[k] = Backslash
     /\ k < Len(s)
     /\ s[k + 1] \notin ListedEscapes
  THEN <<Backslash, Backslash>>
  ELSE <<s[k]>>

Reference(s) == Flatten([k \in 1..Len(s) |-> Emitted(s, k)])

\* the text with every escape sequence of its literals, valid or not, replaced
\* by a letter
Blanked(s) ==
  Flatten([k \in 1..Len(s) |->
             IF ModeAt(s, k) = "in" /\ s[k] = Backslash /\ k < Len(s) THEN <<>>
             ELSE IF ModeAt(s, k) = "escaped" THEN <<"x">>
             ELSE <<s[k]>>])

\* the characters outside the string literals, in order
OutsideLiterals(s) ==
  Flatten([k \in 1..Len(s) |->
             IF ModeAt(s, k) = "out" /\ s[k] # Quote THEN <<s[k]>> ELSE <<>>])

\* C19: for a text that is valid JSON but for the escape sequences of its
\* string literals, the output of fixInvalidEscapeSequences parses, and its
\* characters outside the string literals are those of the input
C19_RepairedTextParses ==
  (fixed # Null /\ JSONParse(Blanked(jsonStr)).ok) =>
    /\ JSONParse(fixed.v).ok
    /\ OutsideLiterals(fixed.v) = OutsideLiterals(jsonStr)

\* C20: the output of fixInvalidEscapeSequences is the reference
\* transformation of its input: every character is copied, and a backslash
\* in a string literal that is followed by a character other than
\* " \ / b f n r t u is written twice
C20_RepairEqualsReference ==
  fixed # Null => fixed.v = Reference(jsonStr)

\* a literal with an invalid escape, which was doubled, and a backslash as
\* the last character of the input
C20_Witness ==
  /\ fixed # Null
  /\ Len(jsonStr) = MaxJsonLen
  /\ ModeAt(jsonStr, 3) = "escaped" /\ jsonStr[3] = "x"
  /\ ModeAt(jsonStr, Len(jsonStr)) = "in" /\ jsonStr[Len(jsonStr)] = Backslash
  /\ Len(fixed.v) = Len(jsonStr) + 1

\* the questions written in the blocks of the text, in the order of the blocks
RECURSIVE Items(_)
Items(names) ==
  IF names = <<>> THEN <<>>
  ELSE PartOf(Head(names)).items \o Items(Tail(names))

Kinds == {PartOf(parts[i]).kind : i \in 1..Len(parts)}

\* the first occurrence of every label among the questions from index i on,
\* for questions whose labels are strings
RECURSIVE FirstOccurrences(_, _)
FirstOccurrences(items, i) ==
  IF i > Len(items) THEN <<>>
  ELSE (IF \E j \in 1..(i - 1) : items[j].v[1][2] = items[i].v[1][2]
        THEN <<>> ELSE <<items[i]>>) \o FirstOccurrences(items, i + 1)

\* C15: for a text of well-formed blocks of questions and prose, the result is
\* the questions of all blocks in block order without the later occurrences of
\* a label, and is no longer than the blocks' questions together
C15_BlocksMergedInOrder ==
  (extracted # Null /\ Kinds \subseteq {"block", "prose"} /\ "block" \in Kinds)
    => /\ extracted.questions = FirstOccurrences(Items(parts), 1)
       /\ Len(extracted.questions) <= Len(Items(parts))

\* the same, for a text one of whose blocks has a question: the fallback is
\* out of reach
MergedWhenQuestionsFound ==
  (/\ extracted # Null
   /\ Kinds \subseteq {"block", "prose"}
   /\ Items(parts) # <<>>)
    => extracted.questions = FirstOccurrences(Items(parts), 1)

\* String(q.question_label) of a question whose label is a string or a number
StringLabel(q) ==
  IF q.v[1][2].t = "number" THEN Decimal(q.v[1][2].v) ELSE q.v[1][2].v

\* C16: when the questions of the blocks are deduplicated, no two questions
\* returned have labels that are equal as strings
C16_LabelsComparedAsStrings ==
  (/\ extracted # Null
   /\ Kinds \subseteq {"block", "numeric", "prose"}
   /\ Items(parts) # <<>>)
    => \A i, j \in 1..Len(extracted.questions) :
         StringLabel(extracted.questions[i]) = StringLabel(extracted.questions[j])
           => i = j

\* C17: when a block of the text parses as an object with questions, every
\* question returned is a question of a block
C17_NoFallbackOnceABlockParses ==
  (/\ extracted # Null
   /\ Kinds \cap {"block", "numeric", "unlabelled", "escaped"} # {})
    => \A i \in 1..Len(extracted.questions) :
         \E j \in 1..Len(Items(parts)) : extracted.questions[i] = Items(parts)[j]

\* C18: in a text with a block that JSON.parse rejects before and after the
\* repair, the questions of the other blocks, the repaired ones among them, are
\* returned and the rejected block adds nothing
C18_RejectedBlockIsSkipped ==
  (/\ extracted # Null
   /\ "rejected" \in Kinds
   /\ Kinds \subseteq {"rejected", "block", "escaped", "unclosed", "prose"}
   /\ Items(parts) # <<>>)
    => /\ ~extracted.parse_error
       /\ extracted.questions = FirstOccurrences(Items(parts), 1)

\* a rejected block between a block and a block that parses once repaired
C18_Witness ==
  /\ parts = <<"two", "comma", "escaped">>
  /\ extracted # Null
  /\ Len(extracted.questions) = 3
  /\ extracted.questions[3] = Label(JString(<<Backslash, "x">>))

\* prepare returned the merged items
Returned21 == prepared # Null /\ prepared.error = ""

\* the solutions whose label, coerced to string, is that of question i
SameLabel(i) ==
  {k \in 1..Len(solutionItems) :
     StringOf(solutionItems[k].question_label)
       = StringOf(questionItems[i].question_label)}

\* C21: has_solution of an item is true exactly when a solution has the
\* question's label, both coerced to string
C21_HasSolutionIffLabelsEqualAsStrings ==
  Returned21 =>
    \A i \in 1..Len(prepared.items) :
      prepared.items[i].has_solution <=> SameLabel(i) # {}

\* the same for the questions and solutions whose labels are truthy
HasSolutionIffTruthyLabelsEqual ==
  Returned21 =>
    \A i \in 1..Len(prepared.items) :
      JsTruthy(questionItems[i].question_label) =>
        (prepared.items[i].has_solution
           <=> \E k \in SameLabel(i) : JsTruthy(solutionItems[k].question_label))

\* C22: the items are the questions, one for one and in their order, each with
\* the label, the text and the choices of its question (no choices when the
\* question has none), and matched and unmatched add up to their number
C22_OneItemPerQuestionInOrder ==
  Returned21 =>
    /\ Len(prepared.items) = Len(questionItems)
    /\ \A i \in 1..Len(prepared.items) :
         /\ prepared.items[i].question_label = questionItems[i].question_label
         /\ prepared.items[i].text = questionItems[i].text
         /\ prepared.items[i].choices =
              (IF questionItems[i].choices = Undefined THEN JArray(<<>>)
               ELSE questionItems[i].choices)
    /\ prepared.summary.matched + prepared.summary.unmatched = Len(questionItems)

\* questions "1" and "2" and a solution of "2" with the answer key A
C22_Witness ==
  /\ Returned21
  /\ Len(questionItems) = 2
  /\ questionItems[1].question_label = Text("1")
  /\ questionItems[2].question_label = Text("2")
  /\ solutionItems = <<SolutionRow(Text("2"), Text("A"), JString(<<>>), Null)>>
  /\ ~prepared.items[1].has_solution
  /\ prepared.items[2].has_solution
  /\ prepared.items[2].answer_key = Text("A")
  /\ prepared.summary.matched = 1 /\ prepared.summary.unmatched = 1

SolutionFields == {"answer_key", "worked_solution", "explanation"}

\* the last of the solutions with the label of question i
LastSameLabel(i) == CHOOSE k \in SameLabel(i) : \A j \in SameLabel(i) : j <= k

\* C23: when several solutions have the label of a question, coerced to
\* string, the answer key, the worked solution and the explanation of the item
\* are those of the last of them
C23_LastSolutionOfALabelWins ==
  Returned21 =>
    \A i \in 1..Len(prepared.items) :
      Cardinality(SameLabel(i)) > 1 =>
        \A f \in SolutionFields :
          prepared.items[i][f] \in {Undefined, solutionItems[LastSameLabel(i)][f]}

\* the same when the labels of the solutions are truthy
LastSolutionWinsForTruthyLabels ==
  Returned21 =>
    \A i \in 1..Len(prepared.items) :
      (/\ Cardinality(SameLabel(i)) > 1
       /\ \A k \in SameLabel(i) : JsTruthy(solutionItems[k].question_label)) =>
        \A f \in SolutionFields :
          prepared.items[i][f] \in {Undefined, solutionItems[LastSameLabel(i)][f]}

\* C24: a field of an item is a truthy field of a solution with the label of
\* the question, and a solution all of whose fields are absent or empty still
\* makes has_solution true
C24_OnlyTruthyFieldsMerged ==
  Returned21 =>
    \A i \in 1..Len(prepared.items) :
      /\ \A f \in SolutionFields :
           prepared.items[i][f] # Undefined =>
             /\ JsTruthy(prepared.items[i][f])
             /\ prepared.items[i].has_solution
             /\ \E k \in SameLabel(i) : solutionItems[k][f] = prepared.items[i][f]
      /\ (\E k \in SameLabel(i) :
            /\ JsTruthy(solutionItems[k].question_label)
            /\ JsTruthy(questionItems[i].question_label)
            /\ \A f \in SolutionFields : ~JsTruthy(solutionItems[k][f]))
           => prepared.items[i].has_solution

\* the only solution of "1" has an empty answer key and no worked solution
C24_Witness ==
  /\ Returned21
  /\ questionItems = <<QuestionRow(Text("1"), Text("a"), JArray(<<Text("x")>>))>>
  /\ solutionItems = <<SolutionRow(Text("1"), JString(<<>>), Undefined, Text("f"))>>
  /\ prepared.items[1].has_solution
  /\ prepared.items[1].answer_key = Undefined
  /\ prepared.items[1].worked_solution = Undefined
  /\ prepared.items[1].explanation = Text("f")

\* the changes of status of the lifecycle
Lifecycle ==
  {<<"pending", "processing">>, <<"processing", "completed">>,
   <<"processing", "failed">>}

\* C25: a question set is created in pending, and its status changes only
\* from pending to processing and from processing to completed or to failed
C25_StatusFollowsLifecycle ==
  [][/\ (questionSet = Null /\ questionSet' # Null)
          => questionSet'.status = "pending"
     /\ (questionSet # Null /\ questionSet' # Null
           /\ questionSet'.status # questionSet.status)
          => <<questionSet.status, questionSet'.status>> \in Lifecycle]_vars

\* no status becomes pending again, and completed and failed are left no more
StatusNeverGoesBack ==
  [][(questionSet # Null /\ questionSet' # Null
        /\ questionSet'.status # questionSet.status)
       => /\ questionSet'.status # "pending"
          /\ questionSet.status \notin {"completed", "failed"}]_vars

\* C26: pollForCompletion asks for the status at most maxAttempts times, once
\* per interval; every response before the last reports neither SUCCESS nor
\* ERROR; the result is returned after SUCCESS, an error thrown after ERROR,
\* and the timeout error thrown after maxAttempts such responses
C26_PollingIsBounded ==
  job # Null =>
    LET n == Len(job.requests)
    IN  /\ n <= maxAttempts
        /\ \A k \in 1..n : job.requests[k].at = (k - 1) * intervalMs
        /\ \A k \in 1..(n - 1) : job.requests[k].status = "PENDING"
        /\ job.polled = "returned" => job.requests[n].status = "SUCCESS"
        /\ job.error = "LlamaParse processing failed"
             => job.requests[n].status = "ERROR"
        /\ job.error = "LlamaParse extraction timed out"
             => n = maxAttempts /\ job.requests[n].status = "PENDING"
        /\ (n = maxAttempts /\ job.requests[n].status = "PENDING")
             => \/ job.pc = "poll" /\ job.attempt = maxAttempts
                \/ job.error = "LlamaParse extraction timed out"

\* the timeout after maxAttempts requests
C26_Witness ==
  /\ job # Null
  /\ job.pc = "threw"
  /\ job.error = "LlamaParse extraction timed out"
  /\ Len(job.requests) = maxAttempts
  /\ job.requests[maxAttempts].at = (maxAttempts - 1) * intervalMs

\* C27: the counter component of an id is the counter of the module, which
\* each call advances by one modulo 2^24: after 2^24 - 1 comes 0, and every
\* value from 0 to 2^24 - 1 is taken before one repeats
C27_CounterWrapsAtTwoToThe24 ==
  [][ids' # ids =>
       /\ counter' = (counter + 1) % 16777216
       /\ ParseHex(ids'[Len(ids')].count) = counter'
       /\ Len(ids'[Len(ids')].count) = 6]_vars

\* what the code does: the counter advances by one modulo 2^24 - 1, so that
\* 0 follows 2^24 - 2 and the count ffffff is never given
CounterWrapsBelowTwoToThe24 ==
  /\ counter \in 0..(counterModulus - 1)
  /\ \A i \in 1..Len(ids) :
       /\ Len(ids[i].count) = 6
       /\ ParseHex(ids[i].count) \in 0..(counterModulus - 1)
       /\ i > 1 => ParseHex(ids[i].count)
                     = (ParseHex(ids[i - 1].count) + 1) % counterModulus

\* the questions that pattern k alone finds in the text
YieldOf(k) == MarkdownQuestions(questionPatterns[k], rawContent, 1, <<>>)

\* the patterns that find a question in the text
Yielding == {k \in 1..Len(questionPatterns) : Len(YieldOf(k)) > 0}

\* C28: in the Markdown fallback the result is what the first pattern that
\* finds a question finds in the whole text, and nothing of a later pattern;
\* when no pattern finds a question the result is {questions: []}, and no
\* error is raised
C28_FirstYieldingPatternOnly ==
  (extracted # Null /\ UseFallback(ScanBlocks(rawContent, 1, <<>>))) =>
    /\ ~extracted.parse_error
    /\ IF Yielding = {} THEN extracted.questions = <<>>
       ELSE \E k \in Yielding :
              /\ \A j \in Yielding : k <= j
              /\ extracted.questions = YieldOf(k)

\* a text in which the first pattern finds nothing and the second and the
\* third each find a question
C28_Witness ==
  /\ extracted # Null
  /\ UseFallback(ScanBlocks(rawContent, 1, <<>>))
  /\ Yielding = {2, 3}
  /\ extracted.questions = YieldOf(2)
  /\ \E i \in 1..Len(YieldOf(3)) :
       \A j \in 1..Len(YieldOf(2)) : YieldOf(3)[i] # YieldOf(2)[j]

\* the loop taken round by round returns what the function returns
ScanAgreesWithParse ==
  (cursor > 0 /\ extracted # Null) =>
    extracted = parseQuestionsFromContent(rawContent)

\* C29: the scan for blocks terminates on every text: in each round the
\* cursor strictly increases, to the end of the block when a closing brace
\* was found (whether or not the block parsed) and to the candidate start
\* + 1 when none was found, and the loop stops when there is no candidate
\* start at or after the cursor
C29_ScanTerminates ==
  /\ [][(cursor > 0 /\ extracted = Null) =>
          LET jsonStart == JsonStart(rawContent, cursor)
              jsonEnd   == MatchBrace(rawContent, jsonStart, 0, FALSE, FALSE)
          IN  IF jsonStart = 0
              THEN extracted' # Null /\ cursor' = cursor
              ELSE /\ extracted' = Null
                   /\ cursor' > cursor
                   /\ cursor' <= Len(rawContent) + 1
                   /\ cursor' = IF jsonEnd # 0 THEN jsonEnd ELSE jsonStart + 1]_vars
  /\ <>(extracted # Null)

\* the loop has stopped after a round that pushed questions and a last round
\* that found no closing brace
C29_Witness ==
  /\ cursor > 0
  /\ extracted # Null
  /\ Len(merged) > 0
  /\ Len(closing) = 2 /\ closing[2] = 0 /\ cursor = closing[1] + 1

\* the scanner with the states OUTSIDE_STRING, INSIDE_STRING and
\* ESCAPE_PENDING over a depth counter, from index i: the index behind the
\* closing brace that takes the depth back to zero, or 0
RECURSIVE ScannerEnd(_, _, _, _)
ScannerEnd(s, i, state, depth) ==
  IF i > Len(s) THEN 0
  ELSE CASE state = "ESCAPE_PENDING" -> ScannerEnd(s, i + 1, "INSIDE_STRING", depth)
         [] state = "INSIDE_STRING" ->
              ScannerEnd(s, i + 1,
                         IF s[i] = Quote THEN "OUTSIDE_STRING"
                         ELSE IF s[i] = Backslash THEN "ESCAPE_PENDING"
                         ELSE "INSIDE_STRING", depth)
         [] state = "OUTSIDE_STRING" ->
              IF s[i] = "}" /\ depth = 1 THEN i + 1
              ELSE ScannerEnd(s, i + 1,
                              IF s[i] = Quote THEN "INSIDE_STRING"
                              ELSE "OUTSIDE_STRING",
                              Braces(s[i], depth))

\* whether the character at index i is outside the string literals of the
\* text that begins at index from
OutsideString(s, from, i) ==
  LET RECURSIVE StateAt(_, _)
      StateAt(k, state) ==
        IF k = i THEN state
        ELSE StateAt(k + 1,
                     CASE state = "ESCAPE_PENDING" -> "INSIDE_STRING"
                       [] state = "INSIDE_STRING" ->
                            IF s[k] = Quote THEN "OUTSIDE_STRING"
                            ELSE IF s[k] = Backslash THEN "ESCAPE_PENDING"
                            ELSE "INSIDE_STRING"
                       [] state = "OUTSIDE_STRING" ->
                            IF s[k] = Quote THEN "INSIDE_STRING"
                            ELSE "OUTSIDE_STRING")
  IN  StateAt(from, "OUTSIDE_STRING") = "OUTSIDE_STRING"

\* C30: the end reported for a candidate start is the end the scanner with
\* the three states reports: the index behind the first closing brace at
\* which the depth, counted over the braces outside string literals, is
\* back at zero, an escaped quote inside a literal not ending the literal;
\* no end when the depth is never back at zero
C30_BlockEndIsThreeStateScan ==
  closing # <<>> =>
    closing[2] = ScannerEnd(rawContent, closing[1], "OUTSIDE_STRING", 0)

\* what the code does: it is that scanner on the texts that have no
\* backslash outside a string literal before the end the scanner reports;
\* a backslash outside a literal hides the character behind it
BlockEndIsScanUnlessBackslashOutside ==
  closing # <<>> =>
    LET end  == ScannerEnd(rawContent, closing[1], "OUTSIDE_STRING", 0)
        last == IF end = 0 THEN Len(rawContent) ELSE end - 1
    IN  (\A i \in closing[1]..last :
           rawContent[i] = Backslash => ~OutsideString(rawContent, closing[1], i))
          => closing[2] = end

\* the table the syncer reads
Table == source[supabaseTable(entity)]

\* the step is the await of preSyncHook, whether it returns or throws
HookStep == pc = "presync" /\ pc' # "presync"

\* the step passes a row to transformItem
TransformStep == transformed' \ transformed # {}

\* C31: a run fetches all rows first, then calls preSyncHook once, and only
\* then transforms a row; transformItem sees the map the hook built; when
\* the hook throws the run ends without an upsert
C31_FetchThenHookThenTransform ==
  /\ [][HookStep => data = Table]_vars
  /\ [][TransformStep =>
          /\ pc = "loop" /\ data = Table
          /\ context = preSyncHook(entity, source)]_vars
  /\ [][(HookStep /\ pc' = "failed") => (sent' = <<>> /\ mongo' = mongo)]_vars

\* what the code does: preSyncHook is called once, before any row is
\* fetched; then all rows are fetched, and only then is a row transformed,
\* with the map the hook built; when the hook throws the run ends with no
\* row fetched and no upsert
HookThenFetchThenTransform ==
  /\ [][pc' # pc =>
          <<pc, pc'>> \in ({"idle", "done", "failed"} \X {"presync"})
                          \cup {<<"presync", "fetch">>, <<"presync", "failed">>,
                                <<"fetch", "loop">>, <<"fetch", "done">>,
                                <<"fetch", "failed">>, <<"loop", "done">>}]_vars
  /\ [](pc = "presync" => (data = <<>> /\ context = EmptyContext))
  /\ [][(context' # context /\ pc' # "presync") =>
          (HookStep /\ context' = preSyncHook(entity, source))]_vars
  /\ [](pc \in {"fetch", "loop"} => context = preSyncHook(entity, source))
  /\ [][TransformStep =>
          /\ pc = "loop" /\ data = Table
          /\ context = preSyncHook(entity, source)]_vars
  /\ [][(HookStep /\ pc' = "failed") =>
          (data' = <<>> /\ sent' = <<>> /\ mongo' = mongo)]_vars

\* C32: fetchSupabaseData ends on every table and, the table being stable,
\* returns every row once, in page order: it asks for the ranges of
\* PAGE_SIZE rows from offset 0 on, one after the other, and stops at the
\* first page that is empty or shorter than PAGE_SIZE; stats.total is the
\* number of rows returned
C32_FetchReturnsEveryRowOnce ==
  /\ [](pc = "fetch" =>
          /\ page * PAGE_SIZE <= Len(Table)
          /\ data = SubSeq(Table, 1, page * PAGE_SIZE))
  /\ [][(pc = "fetch" /\ pc' = "fetch") =>
          (page' = page + 1 /\ Len(data') = Len(data) + PAGE_SIZE)]_vars
  /\ [][(pc = "fetch" /\ pc' \in {"loop", "done"}) =>
          /\ Len(data') - Len(data) < PAGE_SIZE
          /\ data' = Table
          /\ stats'.total = Len(Table)]_vars
  /\ [](pc = "loop" => (data = Table /\ stats.total = Len(Table)))
  /\ (pc = "fetch" ~> pc # "fetch")

\* a table of a full page and a shorter one has been fetched
C32_Witness ==
  /\ pc = "loop"
  /\ page = 2
  /\ Len(data) > PAGE_SIZE /\ Len(data) < 2 * PAGE_SIZE
  /\ data = Table
  /\ stats.total = Len(data)

\* extractQuestions has returned or thrown
ExtractionEnded == job # Null /\ job.pc \in {"returned", "threw"}

\* C33: every call of extractQuestions ends with the question set in a
\* terminal status: completed, with error_message null, when it returns, and
\* failed, with error_message set, when it throws; no call returns or throws
\* while the status is processing
C33_ExtractionEndsInTerminalStatus ==
  /\ [](job.pc = "returned" =>
          (questionSet.status = "completed" /\ questionSet.error_message = ""))
  /\ [](job.pc = "threw" =>
          (questionSet.status = "failed" /\ questionSet.error_message = job.error))
  /\ [](ExtractionEnded => questionSet.status # "processing")
  /\ (job.pc = "updateStatus" ~> ExtractionEnded)

\* what the code does: every call ends; one that returns leaves the set
\* completed, one that throws leaves it failed with the message of the
\* error, or, the update of the catch having failed, as it was
ExtractionEndsInSomeStatus ==
  /\ [](job.pc = "returned" =>
          (questionSet.status = "completed" /\ questionSet.error_message = ""))
  /\ [](job.pc = "threw" =>
          \/ questionSet.status = "failed" /\ questionSet.error_message = job.error
          \/ questionSet.status \in {"pending", "processing"}
               /\ questionSet.error_message = "")
  /\ (job.pc = "updateStatus" ~> ExtractionEnded)

\* the rows that the four counters of st account for
Accounted(st) == st.skipped + st.errors + st.inserted + st.updated

\* the step is a call of batchUpsert with one more batch
SendsBatch == Len(sent') = Len(sent) + 1

\* C34: at the end of a run that returns, skipped + errors + inserted +
\* updated <= total, and every row is counted at most once: a row that is
\* skipped or whose transform throws adds one, and a batch adds at most the
\* number of its rows
C34_StatsCountEachRowOnce ==
  /\ [](pc = "done" => Accounted(stats) <= stats.total)
  /\ [][(pc = "loop" /\ ~SendsBatch) => Accounted(stats') <= Accounted(stats) + 1]_vars
  /\ [][(pc = "loop" /\ SendsBatch) =>
          Accounted(stats') <= Accounted(stats) + Len(sent'[Len(sent')])]_vars

\* what the code does: the rows are counted once by the syncer of the
\* lesson items, and by the syncer of the lessons in every batch whose
\* countDocuments returns
StatsCountEachRowOnceUnlessCountFails ==
  /\ []((pc = "done" /\ entity # "lesson") => Accounted(stats) <= stats.total)
  /\ [][(pc = "loop" /\ ~SendsBatch) => Accounted(stats') <= Accounted(stats) + 1]_vars
  /\ [][(pc = "loop" /\ SendsBatch /\ ~lastFlush'.countThrew) =>
          Accounted(stats') <= Accounted(stats) + Len(sent'[Len(sent')])]_vars
  /\ [][(pc = "loop" /\ SendsBatch /\ lastFlush'.countThrew) =>
          /\ entity = "lesson"
          /\ Accounted(stats') <= Accounted(stats) + 2 * Len(sent'[Len(sent')])]_vars

\* a run of the lesson syncer has returned without a transform error and
\* without a failed call to the target, over lessons no two of which map to
\* the same (order, chapter, type) under different _ids
CleanLessonRun ==
  /\ pc = "done" /\ entity = "lesson"
  /\ data = Table
  /\ \A i \in 1..Len(outcome) : outcome[i] # "error"
  /\ ~ioFailed
  /\ \A i, j \in 1..Len(data) : ~ConflictingIn(Documents, i, j)

\* C35: after a run of the lesson syncer without transform error and without
\* I/O failure, every source lesson that has a ref_id has a document with
\* _id = ref_id in the exercise collection, provided no two source lessons
\* map to the same (order, chapter, type)
C35_EveryLessonIsWritten ==
  CleanLessonRun =>
    \A i \in 1..Len(Table) :
      HasRefId(Table[i]) =>
        \E d \in mongo.exercise : d._id = toObjectId(Table[i].ref_id).val

\* two lessons went to the target, and a document of the key of one of
\* them that the collection held before is gone
C35_Witness ==
  /\ CleanLessonRun
  /\ \E i, j \in 1..Len(Table) :
       /\ HasRefId(Table[i]) /\ HasRefId(Table[j])
       /\ Table[i].ref_id # Table[j].ref_id
  /\ \E x \in lastFlush.before : x._id \notin Ids(mongo.exercise)
  /\ \A i \in 1..Len(Table) :
       HasRefId(Table[i]) =>
         \E d \in mongo.exercise : d._id = toObjectId(Table[i].ref_id).val

\* the exercise_item documents the lesson-item run wrote
WrittenItems ==
  {d \in mongo.exercise_item :
     \E i \in DOMAIN Documents : Documents[i] = d}

PointsToExercise(d) ==
  /\ d.exercise # Null
  /\ \E x \in mongo.exercise : x._id.v = d.exercise.v[2]

SyncAllReturned == call.op = "syncAll" /\ call.pc = "returned"

\* C36: when syncAll() returns, every exercise_item document the run wrote
\* points to an exercise whose _id is in the exercise collection
C36_WrittenItemsPointToExercises ==
  SyncAllReturned => \A d \in WrittenItems : PointsToExercise(d)

\* what the code keeps: the pointers are good when no lesson was lost, that
\* is when the lesson run counted no error
WrittenItemsPointToExercisesUnlessLessonsFailed ==
  (SyncAllReturned /\ call.lessons.v.errors = 0) =>
    \A d \in WrittenItems : PointsToExercise(d)

\* out is the text in with backslashes put in: the characters of in, in
\* their order, and between them backslashes only
RECURSIVE BackslashesInserted(_, _)
BackslashesInserted(in, out) ==
  IF out = <<>> THEN in = <<>>
  ELSE \/ /\ in # <<>>
          /\ Head(in) = Head(out)
          /\ BackslashesInserted(Tail(in), Tail(out))
       \/ /\ Head(out) = Backslash
          /\ BackslashesInserted(in, Tail(out))

\* C37: fixInvalidEscapeSequences applied to its own output returns that
\* output, and its output is its input with backslashes inserted: no
\* character of the input is removed or moved
C37_RepairIsIdempotent ==
  fixed # Null =>
    /\ fixInvalidEscapeSequences(fixed.v) = fixed.v
    /\ BackslashesInserted(jsonStr, fixed.v)
    /\ Len(fixed.v) >= Len(jsonStr)

\* two invalid escapes of a literal were doubled, the second a backslash
\* before the last character of the input, and the repair of the output
\* doubles nothing
C37_Witness ==
  /\ fixed # Null
  /\ Len(jsonStr) = MaxJsonLen
  /\ Len(fixed.v) = Len(jsonStr) + 2
  /\ jsonStr[1] = Quote /\ jsonStr[2] = Backslash /\ jsonStr[3] = "x"
  /\ jsonStr[4] = Backslash /\ jsonStr[5] = "["
  /\ fixInvalidEscapeSequences(fixed.v) = fixed.v

\* a block of the text that parses has a question that is null, so that the
\* read of its label throws
NullQuestion == \E i \in 1..Len(Items(parts)) : Items(parts)[i] = Null

\* C38: parseQuestionsFromContent returns an object with a questions array
\* for every text; when the deduplication throws, it returns no question,
\* the raw content and the error, whatever was read before; otherwise it
\* reports no error
C38_ParseNeverThrows ==
  extracted # Null =>
    /\ DOMAIN extracted.questions = 1..Len(extracted.questions)
    /\ IF NullQuestion
       THEN extracted = [questions |-> <<>>, raw_content |-> rawContent,
                         parse_error |-> TRUE]
       ELSE ~extracted.parse_error

\* two questions were read from a block before the block with the null
\* question, and none is returned
C38_Witness ==
  /\ extracted # Null
  /\ Len(parts) >= 2 /\ parts[1] = "two" /\ parts[2] = "nullItem"
  /\ extracted.questions = <<>>
  /\ extracted.parse_error
  /\ extracted.raw_content = rawContent

\* the label of the question is missing or falsy: undefined, null, the empty
\* string or 0
FalsyLabel(q) ==
  Member(q, <<"question_label">>) \in {Undefined, Null, JString(<<>>), JNumber(0)}

\* C39: of the questions of all blocks whose label is missing or falsy, the
\* first is returned and no other, whatever their other fields
C39_OneUnlabelledQuestion ==
  (extracted # Null /\ ~extracted.parse_error /\ Items(parts) # <<>>) =>
    LET unlabelled == SelectSeq(Items(parts), FalsyLabel)
    IN  SelectSeq(extracted.questions, FalsyLabel) =
          IF unlabelled = <<>> THEN <<>> ELSE <<unlabelled[1]>>

\* the labels "" and 0 of one block and null and none of the next, whose
\* questions have a text: the question of the label "" is returned
C39_Witness ==
  /\ extracted # Null
  /\ parts = <<"unlabelled", "missing", "two">>
  /\ extracted.questions =
       <<Label(JString(<<>>)), Label(JString(<<"5">>)), Label(JString(<<"6">>))>>

\* the request of initialize() settles in this step
MeSettled == authCalls.me.pending /\ ~authCalls'.me.pending

\* C40: the token a login() stored is not cleared when an initialize() that
\* was in flight during the login settles; initialize() clears the token only
\* on a 401 or 403 for the token that is then current, and never on a
\* network error
C40_InitializeKeepsLoginToken ==
  /\ [][(MeSettled /\ authStore.token = IssuedToken
                   /\ authCalls.me.sent # IssuedToken)
          => authStore'.token = IssuedToken]_vars
  /\ [][(MeSettled /\ authStore'.token # authStore.token)
          => /\ authCalls'.last.statusCode \in {401, 403}
             /\ authCalls'.last.sent = authStore.token]_vars

\* what the code keeps: initialize() clears the token only on a 401 or 403,
\* whatever token it was sent for, and changes no token otherwise
InitializeClearsOnAuthErrorOnly ==
  [][MeSettled =>
       IF authCalls'.last.statusCode \in {401, 403}
       THEN authStore'.token = "null" /\ authStore'.user = "null"
       ELSE authStore'.token = authStore.token]_vars

====
